---- MODULE Spec2Model ----
(***************************************************************************)
(* Model of the webhook orchestrator of src/src: the intake handler        *)
(* (main.py receive_request), the background unit                          *)
(* (main.py process_request_background), the JSON file store               *)
(* (main.py Storage), request validation (validator.py) and the calls the  *)
(* unit makes on the repository provider (github.py), the generator        *)
(* (llm.py) and the notifier (evaluator.py).                               *)
(*                                                                         *)
(* Python values are tagged records [t |-> type, v |-> value]; a Python    *)
(* str is a sequence of one-character strings, so that formatting and      *)
(* prefix tests are computed and not assumed.                              *)
(***************************************************************************)
EXTENDS Integers, Sequences, FiniteSets, TLC

(***************************************************************************)
(* Bounds of the model.                                                    *)
(***************************************************************************)
\* number of background units scheduled in one behaviour
MaxUnits == 2
\* number of requests answered as duplicates in one behaviour
MaxReplays == 1

(***************************************************************************)
(* Python values.                                                          *)
(***************************************************************************)
None == [t |-> "none"]
S(chars) == [t |-> "str", v |-> chars]
I(n) == [t |-> "int", v |-> n]
B(b) == [t |-> "bool", v |-> IF b THEN 1 ELSE 0]
L(seq) == [t |-> "list", v |-> seq]
D(f) == [t |-> "dict", v |-> f]

\* isinstance(x, str)
IsStr(x) == x.t = "str"
\* isinstance(x, int): bool is a subclass of int
IsInt(x) == x.t \in {"int", "bool"}
\* isinstance(x, list)
IsList(x) == x.t = "list"
\* isinstance(x, dict)
IsDict(x) == x.t = "dict"

\* s.startswith(p) on character sequences
StartsWith(s, p) == Len(s) >= Len(p) /\ SubSeq(s, 1, Len(p)) = p
\* c in s, for a one-character c
Contains(s, c) == \E i \in 1..Len(s) : s[i] = c

Digit(d) == <<"0", "1", "2", "3", "4", "5", "6", "7", "8", "9">>[d + 1]

RECURSIVE IntToStr(_)
\* str(n) of a non-negative int
IntToStr(n) == IF n < 10 THEN <<Digit(n)>> ELSE IntToStr(n \div 10) \o <<Digit(n % 10)>>

\* the text an f-string puts for a value: str of an int, True/False of a bool
Format(x) ==
  CASE x.t = "str" -> x.v
    [] x.t = "int" -> IntToStr(x.v)
    [] x.t = "bool" -> IF x.v = 1 THEN <<"T", "r", "u", "e">> ELSE <<"F", "a", "l", "s", "e">>
    [] OTHER -> <<"?">>

(***************************************************************************)
(* validator.py                                                            *)
(***************************************************************************)
REQUIRED_FIELDS == <<"email", "secret", "task", "round", "nonce", "brief", "evaluation_url">>

\* a check that names the first missing field only
MissingFirst(data) ==
  LET all == SelectSeq(REQUIRED_FIELDS, LAMBDA f : f \notin DOMAIN data)
  IN IF all = <<>> THEN <<>> ELSE <<Head(all)>>

\* [field for field in REQUIRED_FIELDS if field not in data]
Missing(data) == SelectSeq(REQUIRED_FIELDS, LAMBDA f : f \notin DOMAIN data)

Invalid(msg) == [ok |-> FALSE, msg |-> msg, missing |-> <<>>]

\* each entry of attachments is a dict with 'name' and 'url'
AttachmentsShapeOk(atts) ==
  \A i \in 1..Len(atts) :
    IsDict(atts[i]) /\ "name" \in DOMAIN atts[i].v /\ "url" \in DOMAIN atts[i].v

\* RequestValidator.validate: the checks in order, the first failure decides
Validate(data) ==
  IF Missing(data) # <<>> THEN
    [ok |-> FALSE, msg |-> "Missing required fields", missing |-> Missing(data)]
  ELSE IF ~IsStr(data.email) \/ ~Contains(data.email.v, "@") THEN
    Invalid("Invalid email format")
  ELSE IF ~IsStr(data.task) \/ data.task.v = <<>> THEN
    Invalid("Task must be a non-empty string")
  ELSE IF ~IsInt(data.round) \/ data.round.v < 1 THEN
    Invalid("Round must be a positive integer")
  ELSE IF ~IsStr(data.nonce) \/ data.nonce.v = <<>> THEN
    Invalid("Nonce must be a non-empty string")
  ELSE IF ~IsStr(data.brief) \/ data.brief.v = <<>> THEN
    Invalid("Brief must be a non-empty string")
  ELSE IF ~IsStr(data.evaluation_url)
          \/ ~StartsWith(data.evaluation_url.v, <<"h", "t", "t", "p">>) THEN
    Invalid("Evaluation URL must be a valid HTTP(S) URL")
  ELSE IF "checks" \in DOMAIN data /\ ~IsList(data.checks) THEN
    Invalid("Checks must be a list")
  ELSE IF "attachments" \in DOMAIN data /\ ~IsList(data.attachments) THEN
    Invalid("Attachments must be a list")
  ELSE IF "attachments" \in DOMAIN data /\ ~AttachmentsShapeOk(data.attachments.v) THEN
    Invalid("Each attachment must have 'name' and 'url'")
  ELSE [ok |-> TRUE, msg |-> "", missing |-> <<>>]

(***************************************************************************)
(* main.py Storage                                                         *)
(***************************************************************************)
Sep == <<":", ":">>

\* Storage.get_key: f"{email}::{task}::round{round}::{nonce}"
get_key(data) ==
  Format(data.email) \o Sep \o Format(data.task) \o Sep
    \o <<"r", "o", "u", "n", "d">> \o Format(data.round) \o Sep \o Format(data.nonce)

\* the file at Config.STORAGE_PATH: absent, cut to length 0 by a write in
\* progress, or holding a JSON object
NoFile == [t |-> "nofile"]
Torn == [t |-> "torn"]
Json(m) == [t |-> "json", m |-> m]
EmptyMap == [k \in {} |-> None]

\* Storage.load: {} when the file is absent or does not parse
Load(f) == IF f.t = "json" THEN f.m ELSE EmptyMap

\* storage[key] = payload
Put(m, k, p) == [x \in DOMAIN m \cup {k} |-> IF x = k THEN p ELSE m[x]]


(***************************************************************************)
(* config.py                                                               *)
(***************************************************************************)
\* Config.USER_SECRET and Config.GITHUB_USERNAME: non-empty (Config.validate)
USER_SECRET == S(<<"k">>)
GITHUB_USERNAME == <<"m", "e">>

\* The class attribute Config.GEMINI_API_KEY that llm.py reads. config.py
\* defines no such attribute ("absent"); "set" is a Config that defines it as
\* a non-empty string, "empty" one that defines it as the empty string.
GeminiConfigs == {"absent", "set"}

(***************************************************************************)
(* llm.py AttachmentDecoder                                                *)
(***************************************************************************)
\* position of the first c in s, 0 when there is none
IndexOf(s, c) ==
  IF Contains(s, c) THEN CHOOSE i \in 1..Len(s) : s[i] = c /\ \A j \in 1..(i - 1) : s[j] # c
  ELSE 0

\* position of the last c in s, 0 when there is none
LastIndexOf(s, c) ==
  IF Contains(s, c) THEN CHOOSE i \in 1..Len(s) : s[i] = c /\ \A j \in (i + 1)..Len(s) : s[j] # c
  ELSE 0

\* s.split(c)[0]
BeforeFirst(s, c) == IF IndexOf(s, c) = 0 THEN s ELSE SubSeq(s, 1, IndexOf(s, c) - 1)
\* s.split(c, 1)[1], defined when c is in s
AfterFirst(s, c) == SubSeq(s, IndexOf(s, c) + 1, Len(s))

DataPrefix == <<"d", "a", "t", "a", ":">>

\* header.split(";")[0].replace("data:", ""), for a header that starts with data:
MimeOf(header) ==
  LET m == BeforeFirst(header, ";")
  IN IF StartsWith(m, DataPrefix) THEN SubSeq(m, Len(DataPrefix) + 1, Len(m)) ELSE m

\* base64.b64decode accepts the text: n data characters and p padding characters
B64Ok(b) ==
  LET n == Cardinality({i \in 1..Len(b) : b[i] # "="})
      p == Cardinality({i \in 1..Len(b) : b[i] = "="})
  IN \/ n % 4 = 0
     \/ n % 4 = 2 /\ p >= 2
     \/ n % 4 = 3 /\ p >= 1

\* Path(name).suffix
Suffix(name) ==
  LET i == LastIndexOf(name, ".")
  IN IF i > 1 /\ i < Len(name) THEN SubSeq(name, i, Len(name)) ELSE <<>>

\* path.write_bytes succeeds for a plain file name under ATTACHMENTS_DIR
WritableName(name) == IsStr(name) /\ name.v # <<>> /\ ~Contains(name.v, "/")

\* one iteration of the loop of AttachmentDecoder.decode: the entry appended
\* to saved, or nothing when the attachment is skipped or its decoding raises
DecodeOne(att) ==
  LET name == att.v.name
      url == att.v.url.v
  IN IF ~StartsWith(url, DataPrefix) THEN <<>>
     ELSE IF ~Contains(url, ",") THEN <<>>
     ELSE IF ~B64Ok(AfterFirst(url, ",")) THEN <<>>
     ELSE IF ~WritableName(name) THEN <<>>
     ELSE <<[name |-> name.v, path |-> name.v, mime |-> MimeOf(BeforeFirst(url, ","))]>>

RECURSIVE Decode(_)
\* AttachmentDecoder.decode: the saved entries, in input order
Decode(atts) == IF atts = <<>> THEN <<>> ELSE DecodeOne(Head(atts)) \o Decode(Tail(atts))

\* url.startswith is outside the try: a url that is no str raises out of decode
DecodeRaises(atts) == \E i \in 1..Len(atts) : ~IsStr(atts[i].v.url)

(***************************************************************************)
(* The requests of the model.                                              *)
(***************************************************************************)
TextAtt == D([name |-> S(<<"a", ".", "t", "x", "t">>), url |-> S(<<"d", "a", "t", "a", ":", "t", "e", "x", "t", "/", "p", "l", "a", "i", "n", ";", "b", "a", "s", "e", "6", "4", ",", "Q", "Q", "=", "=">>)])
BinAtt == D([name |-> S(<<"b", ".", "p", "n", "g">>), url |-> S(<<"d", "a", "t", "a", ":", "i", "m", "a", "g", "e", "/", "p", "n", "g", ";", "b", "a", "s", "e", "6", "4", ",", "Q", "Q", "=", "=">>)])
LinkAtt == D([name |-> S(<<"c", ".", "t", "x", "t">>), url |-> S(<<"h", "t", "t", "p", ":", "/", "/", "x">>)])

Request(task, round, nonce, atts) ==
  [email |-> S(<<"a", "@", "b">>), secret |-> USER_SECRET, task |-> S(task), round |-> I(round),
   nonce |-> S(nonce), brief |-> S(<<"a", "p", "p">>), evaluation_url |-> S(<<"h", "t", "t", "p", ":", "/", "/", "e">>),
   checks |-> L(<<>>), attachments |-> L(atts)]

\* round 1 of task t, with a non-data attachment and a text one
ReqT1 == Request(<<"t">>, 1, <<"n">>, <<LinkAtt, TextAtt>>)
\* round 2 of task t, without the optional keys checks and attachments
ReqT2 == [f \in DOMAIN ReqT1 \ {"checks", "attachments"} |-> IF f = "round" THEN I(2) ELSE ReqT1[f]]
\* round 3 of task t, with an attachment
ReqT3 == Request(<<"t">>, 3, <<"n">>, <<TextAtt>>)
\* round 1 of another task, with a binary attachment
ReqU1 == Request(<<"u">>, 1, <<"n">>, <<BinAtt>>)
\* ReqT1 with another secret
ReqT1Forged == [ReqT1 EXCEPT !.secret = S(<<"x">>)]
\* ReqT1 without its nonce
ReqT1NoNonce == [f \in DOMAIN ReqT1 \ {"nonce"} |-> ReqT1[f]]

\* request bodies: a JSON object, or a body request.json() cannot parse
Body(data) == [json |-> TRUE, data |-> data]
NotJson == [json |-> FALSE, data |-> EmptyMap]
Bodies ==
  {Body(ReqT1), Body(ReqT2), Body(ReqT3), Body(ReqU1), Body(ReqT1Forged), Body(ReqT1NoNonce),
   NotJson}


\* the repository names the requests can name
Tasks == {b.data.task.v : b \in {x \in Bodies : x.json /\ "task" \in DOMAIN x.data}}

(***************************************************************************)
(* State.                                                                  *)
(***************************************************************************)
VARIABLES
  cfg,     \* how Config stands on GEMINI_API_KEY, fixed at import
  file,    \* the file at Config.STORAGE_PATH
  repos,   \* the repository provider: per name, its latest commit and its files
  units,   \* the background units: position and locals of process_request_background
  outbox,  \* the calls of EvaluationNotifier.notify, in order
  last,    \* what receive_request answered, when the latest step was a request
  fault,   \* whether the latest step was a collaborator call that failed
  frame    \* the call of generate, notify or wait_for_pages_deployment that is
           \* followed step by step: its arguments, locals and result

vars == <<cfg, file, repos, units, outbox, last, fault, frame>>

\* the state of the service without the call that is followed
service == <<cfg, file, repos, units, outbox, last, fault>>

Units == 1..MaxUnits

\* a slot no unit uses yet, with the locals of process_request_background;
\* log lists the calls the unit has made, in order
FreeUnit ==
  [pc |-> "free", data |-> EmptyMap, gemini_available |-> FALSE,
   prev_readme |-> None, prev_html |-> None, files |-> None,
   saved_attachments |-> <<>>, att_i |-> 1, ncommits |-> 0, commit_sha |-> None,
   payload |-> None, storage |-> EmptyMap, log |-> <<>>]

\* a repository as the provider shows it: its latest commit and its files
NoRepo == [exists |-> FALSE, head |-> None, tree |-> EmptyMap]

\* no call is followed
NoFrame == [fn |-> "none"]

Idle == [body |-> NotJson, code |-> 0, status |-> "none", previous_result |-> None,
         notified |-> <<>>, scheduled |-> 0]

Init ==
  /\ cfg \in GeminiConfigs
  /\ file = NoFile
  /\ repos = [t \in Tasks |-> NoRepo]
  /\ units = [u \in Units |-> FreeUnit]
  /\ outbox = <<>>
  /\ last = Idle
  /\ fault = FALSE
  /\ frame = NoFrame

\* the outcome of one collaborator call: it answers as asked, or it fails
\* (it raises, or reports no success)
Outcome(ok) == fault' = ~ok

(***************************************************************************)
(* main.py receive_request                                                 *)
(***************************************************************************)
\* one call of EvaluationNotifier.notify as the evaluator sees it; by is the
\* unit, 0 for the request handler
NotifyCall(url, payload, by) == [url |-> url, payload |-> payload, by |-> by]

\* the first free slot
NextUnit == CHOOSE u \in Units : units[u].pc = "free" /\ \A w \in 1..(u - 1) : units[w].pc # "free"

\* raise HTTPException(status_code=code)
Reject(b, code) ==
  /\ last' = [Idle EXCEPT !.body = b, !.code = code, !.status = "error"]
  /\ Outcome(TRUE)
  /\ UNCHANGED <<units, outbox>>

\* a duplicate branch that notifies with the request instead of the stored record
ReplayWithRequest(b, prev_payload) ==
  /\ Cardinality({i \in 1..Len(outbox) : outbox[i].by = 0}) < MaxReplays
  /\ outbox' = Append(outbox, NotifyCall(b.data.evaluation_url, b.data, 0))
  /\ last' = [Idle EXCEPT !.body = b, !.code = 200, !.status = "duplicate",
                          !.previous_result = prev_payload, !.notified = <<b.data>>]
  /\ \E delivered \in BOOLEAN : Outcome(delivered)
  /\ UNCHANGED units

\* the duplicate branch: re-notify with the stored record and return it
Replay(b, prev_payload) ==
  /\ Cardinality({i \in 1..Len(outbox) : outbox[i].by = 0}) < MaxReplays
  /\ outbox' = Append(outbox, NotifyCall(b.data.evaluation_url, prev_payload, 0))
  /\ last' = [Idle EXCEPT !.body = b, !.code = 200, !.status = "duplicate",
                          !.previous_result = prev_payload, !.notified = <<prev_payload>>]
  /\ \E delivered \in BOOLEAN : Outcome(delivered)
  /\ UNCHANGED units

\* a handler that constructs the unit's collaborators before it answers
ScheduleStarted(b) ==
  /\ \E u \in Units : units[u].pc = "free"
  /\ units' = [units EXCEPT ![NextUnit] = [FreeUnit EXCEPT !.pc = "get_repo", !.data = b.data]]
  /\ last' = [Idle EXCEPT !.body = b, !.code = 200, !.status = "accepted", !.scheduled = NextUnit]
  /\ Outcome(TRUE)
  /\ UNCHANGED outbox

\* background_tasks.add_task(process_request_background, data) and the
\* accepted response; the task runs once the response is sent
Schedule(b) ==
  /\ \E u \in Units : units[u].pc = "free"
  /\ units' = [units EXCEPT ![NextUnit] = [FreeUnit EXCEPT !.pc = "scheduled", !.data = b.data]]
  /\ last' = [Idle EXCEPT !.body = b, !.code = 200, !.status = "accepted", !.scheduled = NextUnit]
  /\ Outcome(TRUE)
  /\ UNCHANGED outbox

\* a handler that looks the key up before it checks the secret
ReceiveLookupFirst(b) ==
  /\ IF ~b.json THEN Reject(b, 400)
     ELSE IF ~Validate(b.data).ok THEN Reject(b, 400)
     ELSE LET storage == Load(file)
              key == get_key(b.data)
          IN IF key \in DOMAIN storage THEN Replay(b, storage[key])
             ELSE IF b.data.secret # USER_SECRET THEN Reject(b, 403)
             ELSE Schedule(b)
  /\ UNCHANGED <<frame, cfg, file, repos>>

\* data.get("secret") != Config.USER_SECRET
SecretOk(data) == data.secret = USER_SECRET

\* POST /api-endpoint
Receive(b) ==
  /\ IF ~b.json THEN Reject(b, 400)
     ELSE IF ~Validate(b.data).ok THEN Reject(b, 400)
     ELSE IF ~SecretOk(b.data) THEN Reject(b, 403)
     ELSE LET storage == Load(file)
              key == get_key(b.data)
          IN IF key \in DOMAIN storage THEN Replay(b, storage[key]) ELSE Schedule(b)
  /\ UNCHANGED <<frame, cfg, file, repos>>

(***************************************************************************)
(* github.py: the repository provider as the unit uses it                  *)
(***************************************************************************)
README == <<"R", "E", "A", "D", "M", "E", ".", "m", "d">>
INDEX == <<"i", "n", "d", "e", "x", ".", "h", "t", "m", "l">>
LICENSE == <<"L", "I", "C", "E", "N", "S", "E">>

\* the identifier of a commit: the n-th commit that unit by made
Sha(by, n) == [t |-> "sha", by |-> by, n |-> n]

\* the text committed at a path. README.md and index.html hold what the
\* committing unit generated and are named by that unit; the license and an
\* attachment do not depend on the unit (by is 0)
Content(path, by) ==
  [t |-> "content", path |-> path, by |-> IF path \in {README, INDEX} THEN by ELSE 0]

\* repo.get_contents(path).decoded_content, None when the path has no commit
ContentAt(task, path) ==
  IF path \in DOMAIN repos[task].tree THEN repos[task].tree[path] ELSE None

\* GitHubClient.get_latest_commit_sha: commits[0].sha, None when listing fails
get_latest_commit_sha(task, ok) == IF ok THEN repos[task].head ELSE None

(***************************************************************************)
(* main.py process_request_background                                      *)
(***************************************************************************)
Task(u) == units[u].data.task.v
Round(u) == units[u].data.round.v

\* a step of a unit is no request
Quiet == last' = Idle

\* a handler of the exception that also removes what the unit published
RaiseRollback(u, by_collaborator) ==
  /\ units' = [units EXCEPT ![u] = [FreeUnit EXCEPT !.pc = "failed", !.data = units[u].data]]
  /\ fault' = by_collaborator
  /\ repos' = [repos EXCEPT ![units[u].data.task.v] = NoRepo]

\* except Exception at the top of the unit: log and return; the locals of the
\* unit are gone
Raise(u, by_collaborator) ==
  /\ units' = [units EXCEPT ![u] = [FreeUnit EXCEPT !.pc = "failed", !.data = units[u].data]]
  /\ fault' = by_collaborator
  /\ UNCHANGED repos

\* GitHubClient.commit_file / commit_binary_file, when the provider accepts:
\* one more commit on the repository, then the unit goes on at next; step is
\* 1 in the attachment loop and 0 elsewhere
Commit(u, path, kind, next, step) ==
  LET sha == Sha(u, units[u].ncommits + 1)
  IN /\ Outcome(TRUE)
     /\ repos' = [repos EXCEPT ![Task(u)].head = sha,
                               ![Task(u)].tree = Put(@, path, Content(path, u))]
     /\ units' = [units EXCEPT
          ![u].pc = next,
          ![u].att_i = @ + step,
          ![u].ncommits = @ + 1,
          ![u].log = Append(@, [op |-> "commit", path |-> path, kind |-> kind, sha |-> sha])]

\* code_gen = CodeGenerator(); github = GitHubClient()
BgInit(u) ==
  /\ units[u].pc = "scheduled"
  /\ IF cfg = "absent"
     THEN Raise(u, FALSE)
     ELSE /\ units' = [units EXCEPT ![u].pc = "get_repo",
                                    ![u].gemini_available = (cfg = "set")]
          /\ Outcome(TRUE)
          /\ UNCHANGED repos
  /\ Quiet
  /\ UNCHANGED <<frame, cfg, file, outbox>>

\* a unit that never fetches the previous files
AfterRepoNoFetch(u) == "generate"

\* where the unit goes once it holds the repository
AfterRepo(u) == IF Round(u) >= 2 THEN "fetch_readme" ELSE "generate"

\* get_or_create_repo: self.user.get_repo(repo_name)
GetRepo(u) ==
  /\ units[u].pc = "get_repo"
  /\ \/ Raise(u, TRUE)
     \/ /\ repos[Task(u)].exists
        /\ units' = [units EXCEPT ![u].pc = AfterRepo(u)]
        /\ Outcome(TRUE)
        /\ UNCHANGED repos
     \/ /\ ~repos[Task(u)].exists
        /\ units' = [units EXCEPT ![u].pc = "create_repo"]
        /\ Outcome(TRUE)
        /\ UNCHANGED repos
  /\ Quiet
  /\ UNCHANGED <<frame, cfg, file, outbox>>

\* get_or_create_repo: self.user.create_repo(...) after a 404; the provider
\* refuses a name that exists
CreateRepo(u) ==
  /\ units[u].pc = "create_repo"
  /\ \/ Raise(u, TRUE)
     \/ /\ ~repos[Task(u)].exists
        /\ repos' = [repos EXCEPT ![Task(u)].exists = TRUE]
        /\ units' = [units EXCEPT ![u].pc = AfterRepo(u)]
        /\ Outcome(TRUE)
  /\ Quiet
  /\ UNCHANGED <<frame, cfg, file, outbox>>

\* prev_readme = github.get_readme_content(repo)
FetchReadme(u) ==
  /\ units[u].pc = "fetch_readme"
  /\ \E ok \in BOOLEAN :
       LET got == IF ok THEN ContentAt(Task(u), README) ELSE None
       IN /\ Outcome(ok)
          /\ units' = [units EXCEPT
               ![u].pc = "fetch_html",
               ![u].prev_readme = got,
               ![u].log = Append(@, [op |-> "fetch", path |-> README, got |-> got])]
  /\ Quiet
  /\ UNCHANGED <<frame, cfg, file, repos, outbox>>

\* prev_html = github.get_html_content(repo)
FetchHtml(u) ==
  /\ units[u].pc = "fetch_html"
  /\ \E ok \in BOOLEAN :
       LET got == IF ok THEN ContentAt(Task(u), INDEX) ELSE None
       IN /\ Outcome(ok)
          /\ units' = [units EXCEPT
               ![u].pc = "generate",
               ![u].prev_html = got,
               ![u].log = Append(@, [op |-> "fetch", path |-> INDEX, got |-> got])]
  /\ Quiet
  /\ UNCHANGED <<frame, cfg, file, repos, outbox>>

\* data.get("attachments", [])
Attachments(data) == IF "attachments" \in DOMAIN data THEN data.attachments.v ELSE <<>>

\* CodeGenerator.generate: the provider whose text is parsed
Provider(groq_ok, gemini_available, gemini_ok) ==
  IF groq_ok THEN "groq"
  ELSE IF gemini_available /\ gemini_ok THEN "gemini"
  ELSE "fallback"

\* the arguments process_request_background passes to generate
GenerateArgs(u) ==
  [round_num |-> Round(u), prev_readme |-> units[u].prev_readme, prev_html |-> units[u].prev_html]

\* a unit that commits README.md in round 1 only
AfterGenerateNoReadme(u) == IF Round(u) = 1 THEN "license" ELSE "index"

\* the truth value Python gives a string or None in a condition
Truthy(x) == x # None /\ x # S(<<>>)

\* CodeGenerator._build_prompt: the previous-version section, empty when it
\* is left out. prev_html[:10000] is the whole text for the texts here.
Context(round_num, prev_readme, prev_html) ==
  IF round_num = 2 /\ (Truthy(prev_readme) \/ Truthy(prev_html))
  THEN <<[h |-> "Previous Version Context"]>>
         \o (IF Truthy(prev_readme) THEN <<[h |-> "Previous README", body |-> prev_readme]>> ELSE <<>>)
         \o (IF Truthy(prev_html) THEN <<[h |-> "Previous HTML Code", body |-> prev_html]>> ELSE <<>>)
         \o <<[h |-> "Your task is to UPDATE the existing app"]>>
  ELSE <<>>

\* CodeGenerator._build_prompt: the parts of the prompt text, in order
build_prompt(brief, checks, attachments, round_num, prev_readme, prev_html) ==
  [round_num |-> round_num,
   context |-> Context(round_num, prev_readme, prev_html),
   brief |-> brief,
   att_info |-> [i \in 1..Len(attachments) |-> [name |-> attachments[i].name, mime |-> attachments[i].mime]],
   checks_info |-> checks]

\* data.get("checks", [])
Checks(data) == IF "checks" \in DOMAIN data THEN data.checks.v ELSE <<>>

\* the prompt generate builds for the unit
Prompt(u) ==
  build_prompt(units[u].data.brief, Checks(units[u].data), Decode(Attachments(units[u].data)),
               Round(u), units[u].prev_readme, units[u].prev_html)

\* where the unit goes with the generated files: if round_num == 1, the license
AfterGenerate(u) == IF Round(u) = 1 THEN "license" ELSE "readme"

\* result = code_gen.generate(...)
Generate(u) ==
  /\ units[u].pc = "generate"
  /\ IF DecodeRaises(Attachments(units[u].data))
     THEN Raise(u, FALSE)
     ELSE /\ \E groq_ok \in BOOLEAN, gemini_ok \in BOOLEAN :
               Outcome(Provider(groq_ok, units[u].gemini_available, gemini_ok) = "groq")
          /\ units' = [units EXCEPT
               ![u].pc = AfterGenerate(u),
               ![u].files = [t |-> "files", by |-> u],
               ![u].saved_attachments = Decode(Attachments(units[u].data)),
               ![u].log = Append(@, [op |-> "generate", args |-> GenerateArgs(u),
                                     prompt |-> Prompt(u)])]
          /\ UNCHANGED repos
  /\ Quiet
  /\ UNCHANGED <<frame, cfg, file, outbox>>

\* github.commit_file(path="LICENSE"), round 1 only
CommitLicense(u) ==
  /\ units[u].pc = "license"
  /\ \/ Commit(u, LICENSE, "text",
               IF units[u].saved_attachments # <<>> THEN "attach" ELSE "readme", 0)
     \/ Raise(u, TRUE)
  /\ Quiet
  /\ UNCHANGED <<frame, cfg, file, outbox>>

TextSuffixes == {<<".", "c", "s", "v">>, <<".", "j", "s", "o", "n">>, <<".", "t", "x", "t">>, <<".", "m", "d">>}

\* att["mime"].startswith("text") or att_path.suffix in [".csv", ".json", ".txt", ".md"]
IsTextAttachment(att) ==
  StartsWith(att.mime, <<"t", "e", "x", "t">>) \/ Suffix(att.path) \in TextSuffixes

\* where the attachment loop goes after the entry at att_i
AfterAttachment(u) ==
  IF units[u].att_i >= Len(units[u].saved_attachments) THEN "readme" ELSE "attach"

\* a loop without the inner try: a failed commit ends the unit
CommitAttachmentAbort(u) ==
  /\ units[u].pc = "attach"
  /\ LET att == units[u].saved_attachments[units[u].att_i]
     IN \/ Commit(u, att.name, IF IsTextAttachment(att) THEN "text" ELSE "binary",
                  AfterAttachment(u), 1)
        \/ Raise(u, TRUE)
  /\ Quiet
  /\ UNCHANGED <<frame, cfg, file, outbox>>

\* one iteration of for att in saved_attachments, round 1 only: a failed
\* commit is logged and the loop goes on
CommitAttachment(u) ==
  /\ units[u].pc = "attach"
  /\ LET att == units[u].saved_attachments[units[u].att_i]
     IN \/ Commit(u, att.name, IF IsTextAttachment(att) THEN "text" ELSE "binary",
                  AfterAttachment(u), 1)
        \/ /\ units' = [units EXCEPT ![u].pc = AfterAttachment(u), ![u].att_i = @ + 1]
           /\ Outcome(FALSE)
           /\ UNCHANGED repos
  /\ Quiet
  /\ UNCHANGED <<frame, cfg, file, outbox>>

\* where the unit goes after README.md: if round_num == 1, enable_pages
AfterReadme(u) == IF Round(u) = 1 THEN "pages" ELSE "index"

\* github.commit_file(path="README.md")
CommitReadme(u) ==
  /\ units[u].pc = "readme"
  /\ \/ Commit(u, README, "text", AfterReadme(u), 0)
     \/ Raise(u, TRUE)
  /\ Quiet
  /\ UNCHANGED <<frame, cfg, file, outbox>>

\* a unit for which a refused enable_pages is fatal
EnablePagesStrict(u) ==
  /\ units[u].pc = "pages"
  /\ \/ /\ Outcome(TRUE)
        /\ units' = [units EXCEPT ![u].pc = "index",
                                  ![u].log = Append(@, [op |-> "enable_pages"])]
        /\ UNCHANGED repos
     \/ Raise(u, TRUE)
  /\ Quiet
  /\ UNCHANGED <<frame, cfg, file, outbox>>

\* pages_ok = github.enable_pages(task_id), round 1 only; false is only logged
EnablePages(u) ==
  /\ units[u].pc = "pages"
  /\ \E pages_ok \in BOOLEAN : Outcome(pages_ok)
  /\ units' = [units EXCEPT ![u].pc = "index",
                            ![u].log = Append(@, [op |-> "enable_pages"])]
  /\ Quiet
  /\ UNCHANGED <<frame, cfg, file, repos, outbox>>

\* github.commit_file(path="index.html")
CommitIndex(u) ==
  /\ units[u].pc = "index"
  /\ \/ Commit(u, INDEX, "text", "sha", 0)
     \/ Raise(u, TRUE)
  /\ Quiet
  /\ UNCHANGED <<frame, cfg, file, outbox>>

\* a unit that goes on to the wait with whatever get_latest_commit_sha returned
GetShaAnyValue(u) ==
  /\ units[u].pc = "sha"
  /\ \E ok \in BOOLEAN :
       /\ units' = [units EXCEPT ![u].pc = "wait",
                                 ![u].commit_sha = get_latest_commit_sha(Task(u), ok)]
       /\ Outcome(ok)
  /\ Quiet
  /\ UNCHANGED <<frame, cfg, file, repos, outbox>>

\* commit_sha = github.get_latest_commit_sha(repo); commit_sha[:8] raises on None
GetSha(u) ==
  /\ units[u].pc = "sha"
  /\ \E ok \in BOOLEAN :
       LET sha == get_latest_commit_sha(Task(u), ok)
       IN IF sha = None
          THEN Raise(u, TRUE)
          ELSE /\ units' = [units EXCEPT ![u].pc = "wait", ![u].commit_sha = sha]
               /\ Outcome(TRUE)
               /\ UNCHANGED repos
  /\ Quiet
  /\ UNCHANGED <<frame, cfg, file, outbox>>

HttpsPrefix == <<"h", "t", "t", "p", "s", ":", "/", "/">>

\* repo.html_url
RepoUrl(task) == HttpsPrefix \o <<"g", "i", "t", "h", "u", "b", ".", "c", "o", "m", "/">> \o GITHUB_USERNAME \o <<"/">> \o task
\* f"https://{github.username}.github.io/{task_id}/"
PagesUrl(task) == HttpsPrefix \o GITHUB_USERNAME \o <<".", "g", "i", "t", "h", "u", "b", ".", "i", "o", "/">> \o task \o <<"/">>

\* the notification payload of a unit
Payload(u) ==
  [email |-> units[u].data.email, task |-> units[u].data.task,
   round |-> units[u].data.round, nonce |-> units[u].data.nonce,
   repo_url |-> RepoUrl(Task(u)), commit_sha |-> units[u].commit_sha,
   pages_url |-> PagesUrl(Task(u))]

\* a unit that gives up when the deployment is not confirmed
WaitPagesStrict(u) ==
  /\ units[u].pc = "wait"
  /\ \E pages_ready \in BOOLEAN :
       IF pages_ready
       THEN /\ Outcome(TRUE)
            /\ units' = [units EXCEPT
                 ![u].pc = "notify",
                 ![u].payload = Payload(u),
                 ![u].log = Append(@, [op |-> "wait", sha |-> units[u].commit_sha])]
            /\ UNCHANGED repos
       ELSE Raise(u, TRUE)
  /\ Quiet
  /\ UNCHANGED <<frame, cfg, file, outbox>>

\* pages_ready = github.wait_for_pages_deployment(repo, commit_sha), then the
\* payload; an unconfirmed deployment is only logged
WaitPages(u) ==
  /\ units[u].pc = "wait"
  /\ \E pages_ready \in BOOLEAN : Outcome(pages_ready)
  /\ units' = [units EXCEPT
       ![u].pc = "notify",
       ![u].payload = Payload(u),
       ![u].log = Append(@, [op |-> "wait", sha |-> units[u].commit_sha])]
  /\ Quiet
  /\ UNCHANGED <<frame, cfg, file, repos, outbox>>

\* a unit that treats a notification that was not delivered as an error
NotifyStrict(u) ==
  /\ units[u].pc = "notify"
  /\ outbox' = Append(outbox, NotifyCall(units[u].data.evaluation_url, units[u].payload, u))
  /\ \E delivered \in BOOLEAN :
       IF delivered
       THEN /\ Outcome(TRUE)
            /\ units' = [units EXCEPT
                 ![u].pc = "load",
                 ![u].log = Append(@, [op |-> "notify", payload |-> units[u].payload])]
            /\ UNCHANGED repos
       ELSE Raise(u, TRUE)
  /\ Quiet
  /\ UNCHANGED <<frame, cfg, file>>

\* EvaluationNotifier.notify(data["evaluation_url"], payload); the result is dropped
Notify(u) ==
  /\ units[u].pc = "notify"
  /\ \E delivered \in BOOLEAN : Outcome(delivered)
  /\ outbox' = Append(outbox, NotifyCall(units[u].data.evaluation_url, units[u].payload, u))
  /\ units' = [units EXCEPT
       ![u].pc = "load",
       ![u].log = Append(@, [op |-> "notify", payload |-> units[u].payload])]
  /\ Quiet
  /\ UNCHANGED <<frame, cfg, file, repos>>

\* storage = Storage.load(); storage[Storage.get_key(data)] = payload
LoadStore(u) ==
  /\ units[u].pc = "load"
  /\ units' = [units EXCEPT
       ![u].pc = "truncate",
       ![u].storage = Put(Load(file), get_key(units[u].data), units[u].payload)]
  /\ Quiet
  /\ Outcome(TRUE)
  /\ UNCHANGED <<frame, cfg, file, repos, outbox>>

\* Storage.save: write_text opens the file for writing, which cuts it to length 0
SaveTruncate(u) ==
  /\ units[u].pc = "truncate"
  /\ file' = Torn
  /\ units' = [units EXCEPT ![u].pc = "write"]
  /\ Quiet
  /\ Outcome(TRUE)
  /\ UNCHANGED <<frame, cfg, repos, outbox>>

\* Storage.save: the JSON text of the unit's dictionary reaches the file
SaveWrite(u) ==
  /\ units[u].pc = "write"
  /\ file' = Json(units[u].storage)
  /\ units' = [units EXCEPT
       ![u].pc = "done",
       ![u].log = Append(@, [op |-> "save", key |-> get_key(units[u].data),
                             payload |-> units[u].payload])]
  /\ Quiet
  /\ Outcome(TRUE)
  /\ UNCHANGED <<frame, cfg, repos, outbox>>

Next ==
  \/ \E b \in Bodies : Receive(b)
  \/ \E u \in Units :
       \/ BgInit(u)
       \/ GetRepo(u)
       \/ CreateRepo(u)
       \/ FetchReadme(u)
       \/ FetchHtml(u)
       \/ Generate(u)
       \/ CommitLicense(u)
       \/ CommitAttachment(u)
       \/ CommitReadme(u)
       \/ EnablePages(u)
       \/ CommitIndex(u)
       \/ GetSha(u)
       \/ WaitPages(u)
       \/ Notify(u)
       \/ LoadStore(u)
       \/ SaveTruncate(u)
       \/ SaveWrite(u)

Spec == Init /\ [][Next]_vars

(***************************************************************************)
(* main.py: one background unit alone, for requests with several           *)
(* attachments.                                                            *)
(***************************************************************************)
\* the requests of the unit: round 1 with two data attachments around a link
\* or in the other order, and a round 2
PublishRequests ==
  {Request(<<"t">>, 1, <<"n">>, <<BinAtt, LinkAtt, TextAtt>>),
   Request(<<"t">>, 1, <<"n">>, <<TextAtt, BinAtt>>),
   ReqT2}

\* the state in which receive_request has accepted the request and scheduled
\* the unit
PublishInit ==
  /\ cfg \in GeminiConfigs
  /\ file = NoFile
  /\ repos = [t \in Tasks |-> NoRepo]
  /\ outbox = <<>>
  /\ fault = FALSE
  /\ frame = NoFrame
  /\ \E data \in PublishRequests :
       /\ units = [u \in Units |->
                     IF u = 1 THEN [FreeUnit EXCEPT !.pc = "scheduled", !.data = data]
                     ELSE FreeUnit]
       /\ last = [Idle EXCEPT !.body = Body(data), !.code = 200, !.status = "accepted",
                              !.scheduled = 1]

PublishNext ==
  \/ BgInit(1)
  \/ GetRepo(1)
  \/ CreateRepo(1)
  \/ FetchReadme(1)
  \/ FetchHtml(1)
  \/ Generate(1)
  \/ CommitLicense(1)
  \/ CommitAttachment(1)
  \/ CommitReadme(1)
  \/ EnablePages(1)
  \/ CommitIndex(1)
  \/ GetSha(1)
  \/ WaitPages(1)
  \/ Notify(1)
  \/ LoadStore(1)
  \/ SaveTruncate(1)
  \/ SaveWrite(1)

PublishSpec == PublishInit /\ [][PublishNext]_vars

(***************************************************************************)
(* llm.py: CodeGenerator.generate, followed step by step.                  *)
(* A text is a sequence of pieces: a visible character, a blank, a line    *)
(* break, the code fence and the README marker.                            *)
(***************************************************************************)
\* longest text a provider returns, in pieces
MaxText == 3

MARKER == "---README---"
\* the code fence, three backquotes
FENCE == "fence"
Pieces == {"h", " ", "\n", FENCE, MARKER}
Texts == UNION {[1..n -> Pieces] : n \in 0..MaxText}

IsSpace(c) == c \in {" ", "\n"}

RECURSIVE LStrip(_)
\* text.lstrip()
LStrip(t) == IF t # <<>> /\ IsSpace(Head(t)) THEN LStrip(Tail(t)) ELSE t

RECURSIVE RStrip(_)
\* text.rstrip()
RStrip(t) == IF t # <<>> /\ IsSpace(t[Len(t)]) THEN RStrip(SubSeq(t, 1, Len(t) - 1)) ELSE t

\* text.strip()
Strip(t) == RStrip(LStrip(t))

RECURSIVE SplitLines(_)
\* text.split("\n")
SplitLines(t) ==
  IF ~Contains(t, "\n") THEN <<t>>
  ELSE <<BeforeFirst(t, "\n")>> \o SplitLines(AfterFirst(t, "\n"))

RECURSIVE JoinLines(_)
\* "\n".join(lines)
JoinLines(lines) ==
  IF lines = <<>> THEN <<>>
  ELSE IF Len(lines) = 1 THEN lines[1]
  ELSE lines[1] \o <<"\n">> \o JoinLines(Tail(lines))

\* a stripper that drops the opening line only
StripOpeningOnly(text) ==
  LET t == Strip(text)
  IN IF t # <<>> /\ Head(t) = FENCE THEN Strip(JoinLines(Tail(SplitLines(t)))) ELSE t

\* CodeGenerator._strip_code_block
strip_code_block(text) ==
  LET t == Strip(text)
      lines == Tail(SplitLines(t))
      kept == IF lines # <<>> /\ Strip(lines[Len(lines)]) = <<FENCE>>
              THEN SubSeq(lines, 1, Len(lines) - 1) ELSE lines
  IN IF t # <<>> /\ Head(t) = FENCE THEN Strip(JoinLines(kept)) ELSE t

RECURSIVE Bullets(_)
\* "\n".join([f"- {x}" for x in items])
Bullets(items) ==
  IF items = <<>> THEN <<>>
  ELSE <<"h", " ">> \o Head(items) \o (IF Len(items) > 1 THEN <<"\n">> ELSE <<>>) \o Bullets(Tail(items))

\* CodeGenerator._generate_fallback_readme: a title line, the brief, the
\* attachment names (None when there are none), the checks and fixed sections
generate_fallback_readme(brief, checks, attachments, round_num) ==
  <<"h", " ">> \o IntToStr(round_num) \o <<"\n">> \o brief \o <<"\n">>
    \o (IF attachments = <<>> THEN <<"h">>
        ELSE Bullets([i \in 1..Len(attachments) |-> attachments[i].name]))
    \o <<"\n">> \o Bullets(checks) \o <<"\n", "h", "\n">>

RECURSIVE Items(_)
\* "".join([f"<li>{check}</li>" for check in checks])
Items(checks) == IF checks = <<>> THEN <<>> ELSE <<"h">> \o Head(checks) \o <<"h">> \o Items(Tail(checks))

\* CodeGenerator._fallback_html: the static page with the brief and the
\* checks, the marker line and the fallback readme of round 1
fallback_html(brief, checks) ==
  <<"h", "\n">> \o brief \o <<"\n">> \o Items(checks) \o <<"\n", "h", "\n", MARKER, "\n">>
    \o generate_fallback_readme(brief, checks, <<>>, 1)

\* text.split("---README---", 1)
SplitAtMarker(text) ==
  [html |-> Strip(BeforeFirst(text, MARKER)), readme |-> Strip(AfterFirst(text, MARKER))]

\* a parser that splits at the last marker
ParseAtLastMarker(text, brief, checks, attachments, round_num) ==
  LET k == LastIndexOf(text, MARKER)
      html_part == IF k > 0 THEN Strip(SubSeq(text, 1, k - 1)) ELSE Strip(text)
      readme_part == IF k > 0 THEN Strip(SubSeq(text, k + 1, Len(text)))
                     ELSE generate_fallback_readme(brief, checks, attachments, round_num)
  IN [f \in {"index.html", "README.md"} |->
        IF f = "index.html" THEN strip_code_block(html_part) ELSE strip_code_block(readme_part)]

\* CodeGenerator._parse_response
parse_response(text, brief, checks, attachments, round_num) ==
  LET html_part == IF Contains(text, MARKER) THEN SplitAtMarker(text).html ELSE Strip(text)
      readme_part == IF Contains(text, MARKER) THEN SplitAtMarker(text).readme
                     ELSE generate_fallback_readme(brief, checks, attachments, round_num)
  IN [f \in {"index.html", "README.md"} |->
        IF f = "index.html" THEN strip_code_block(html_part) ELSE strip_code_block(readme_part)]

\* an attachment whose url is a number
NumAtt == D([name |-> S(<<"d">>), url |-> I(5)])

\* the briefs, checks and attachment lists generate is called with
Briefs == {<<"h">>, <<"h", MARKER>>}
CheckLists == {<<>>, <<<<"h">>>>}
AttachmentLists == {<<>>, <<TextAtt>>, <<LinkAtt, NumAtt>>}

\* generate is entered
GenFrame(brief, checks, attachments, round_num, gemini_available) ==
  [fn |-> "generate", pc |-> "decode", brief |-> brief, checks |-> checks,
   attachments |-> attachments, round_num |-> round_num,
   gemini_available |-> gemini_available, saved_attachments |-> <<>>,
   prompt |-> None, calls |-> <<>>,
   generated_text |-> None, provider |-> "none", files |-> None]

GenInit ==
  /\ cfg \in {"empty", "set"}
  /\ file = NoFile
  /\ repos = [t \in Tasks |-> NoRepo]
  /\ units = [u \in Units |-> FreeUnit]
  /\ outbox = <<>>
  /\ last = Idle
  /\ fault = FALSE
  /\ \E brief \in Briefs, checks \in CheckLists, attachments \in AttachmentLists,
        round_num \in 1..2 :
       frame = GenFrame(brief, checks, attachments, round_num, cfg = "set")

\* a first call that has no backup: when it fails the static page is used
GenCallGroqNoBackup ==
  /\ frame.fn = "generate" /\ frame.pc = "groq"
  /\ \E r \in {None} \cup {S(t) : t \in Texts} :
       frame' = [frame EXCEPT
         !.generated_text = r,
         !.calls = Append(@, [provider |-> "groq", prompt |-> frame.prompt, text |-> r]),
         !.provider = Provider(r # None, FALSE, FALSE),
         !.pc = IF r # None THEN "parse" ELSE "fallback"]
  /\ UNCHANGED service

\* saved_attachments = AttachmentDecoder.decode(attachments), then
\* prompt = self._build_prompt(...) with the default prev_readme and prev_html
GenDecode ==
  /\ frame.fn = "generate" /\ frame.pc = "decode"
  /\ frame' = IF DecodeRaises(frame.attachments)
              THEN [frame EXCEPT !.pc = "raised"]
              ELSE [frame EXCEPT
                      !.pc = "groq",
                      !.saved_attachments = Decode(frame.attachments),
                      !.prompt = build_prompt(frame.brief, frame.checks,
                                              Decode(frame.attachments), frame.round_num,
                                              None, None)]
  /\ UNCHANGED service

\* generated_text = self._call_groq(prompt): a text, or None when the call raises
GenCallGroq ==
  /\ frame.fn = "generate" /\ frame.pc = "groq"
  /\ \E r \in {None} \cup {S(t) : t \in Texts} :
       frame' = [frame EXCEPT
         !.generated_text = r,
         !.calls = Append(@, [provider |-> "groq", prompt |-> frame.prompt, text |-> r]),
         !.provider = Provider(r # None, frame.gemini_available, FALSE),
         !.pc = IF r # None THEN "parse"
                ELSE IF frame.gemini_available THEN "gemini" ELSE "fallback"]
  /\ UNCHANGED service

\* generated_text = self._call_gemini(prompt), when Groq failed and Gemini is there
GenCallGemini ==
  /\ frame.fn = "generate" /\ frame.pc = "gemini"
  /\ \E r \in {None} \cup {S(t) : t \in Texts} :
       frame' = [frame EXCEPT
         !.generated_text = r,
         !.calls = Append(@, [provider |-> "gemini", prompt |-> frame.prompt, text |-> r]),
         !.provider = Provider(FALSE, frame.gemini_available, r # None),
         !.pc = IF r # None THEN "parse" ELSE "fallback"]
  /\ UNCHANGED service

\* generated_text = self._fallback_html(brief, checks)
GenFallback ==
  /\ frame.fn = "generate" /\ frame.pc = "fallback"
  /\ frame' = [frame EXCEPT
       !.generated_text = S(fallback_html(frame.brief, frame.checks)),
       !.pc = "parse"]
  /\ UNCHANGED service

\* files = self._parse_response(...); return files
GenParse ==
  /\ frame.fn = "generate" /\ frame.pc = "parse"
  /\ frame' = [frame EXCEPT
       !.files = parse_response(frame.generated_text.v, frame.brief, frame.checks,
                                frame.saved_attachments, frame.round_num),
       !.pc = "returned"]
  /\ UNCHANGED service

GenNext ==
  \/ GenDecode
  \/ GenCallGroq
  \/ GenCallGemini
  \/ GenFallback
  \/ GenParse

GenSpec == GenInit /\ [][GenNext]_vars

(***************************************************************************)
(* evaluator.py: EvaluationNotifier.notify, followed step by step.         *)
(***************************************************************************)
MAX_RETRIES == 10
INITIAL_DELAY == 1

\* what httpx.post gives: a response with a status code, or an exception
StatusCodes == {200, 201, 500}
Response(code) == [t |-> "response", status_code |-> code]
TransportError == [t |-> "exception"]
Responses == {Response(code) : code \in StatusCodes} \cup {TransportError}

\* notify is entered: attempt is the loop variable, responses what the posts
\* gave and sleeps the arguments of time.sleep, both in order
NotifyFrame ==
  [fn |-> "notify", pc |-> "post", attempt |-> 0, delay |-> INITIAL_DELAY,
   responses |-> <<>>, sleeps |-> <<>>, result |-> None]

NotifyInit ==
  /\ cfg \in {"empty", "set"}
  /\ file = NoFile
  /\ repos = [t \in Tasks |-> NoRepo]
  /\ units = [u \in Units |-> FreeUnit]
  /\ outbox = <<>>
  /\ last = Idle
  /\ fault = FALSE
  /\ frame = NotifyFrame

\* response = httpx.post(...); if response.status_code == 200: return True
NotifyPost ==
  /\ frame.fn = "notify" /\ frame.pc = "post"
  /\ \E r \in Responses :
       frame' = IF r.t = "response" /\ r.status_code = 200
                THEN [frame EXCEPT !.responses = Append(@, r), !.result = B(TRUE),
                                   !.pc = "returned"]
                ELSE [frame EXCEPT !.responses = Append(@, r), !.pc = "sleep"]
  /\ UNCHANGED service

\* the end of one iteration: time.sleep(delay); delay *= 2 unless it was the
\* last attempt, and return False once the loop is over
NotifyBackoff ==
  /\ frame.fn = "notify" /\ frame.pc = "sleep"
  /\ LET slept == IF frame.attempt < MAX_RETRIES - 1
                  THEN [frame EXCEPT !.sleeps = Append(@, frame.delay), !.delay = @ * 2]
                  ELSE frame
     IN frame' = IF frame.attempt + 1 < MAX_RETRIES
                 THEN [slept EXCEPT !.attempt = @ + 1, !.pc = "post"]
                 ELSE [slept EXCEPT !.result = B(FALSE), !.pc = "returned"]
  /\ UNCHANGED service

NotifyNext ==
  \/ NotifyPost
  \/ NotifyBackoff

NotifySpec == NotifyInit /\ [][NotifyNext]_vars

(***************************************************************************)
(* github.py: GitHubClient.wait_for_pages_deployment, followed poll by     *)
(* poll for a unit that has committed index.html, and the rest of the unit *)
(***************************************************************************)
max_attempts == 30
retry_delay == 5

\* most deployments in one listing
MaxDeployments == 2

\* the unit that waits: a round 2 request on a new repository, after
\* get_latest_commit_sha
WaitingUnit ==
  [FreeUnit EXCEPT
     !.pc = "wait",
     !.data = ReqT2,
     !.gemini_available = TRUE,
     !.files = [t |-> "files", by |-> 1],
     !.ncommits = 2,
     !.commit_sha = Sha(1, 2),
     !.log = <<[op |-> "fetch", path |-> README, got |-> None],
               [op |-> "fetch", path |-> INDEX, got |-> None],
               [op |-> "generate",
                args |-> [round_num |-> 2, prev_readme |-> None, prev_html |-> None],
                prompt |-> build_prompt(ReqT2.brief, <<>>, <<>>, 2, None, None)],
               [op |-> "commit", path |-> README, kind |-> "text", sha |-> Sha(1, 1)],
               [op |-> "commit", path |-> INDEX, kind |-> "text", sha |-> Sha(1, 2)]>>]

\* the repository of that unit
WaitingRepo ==
  [exists |-> TRUE, head |-> Sha(1, 2),
   tree |-> Put(Put(EmptyMap, README, Content(README, 1)), INDEX, Content(INDEX, 1))]

\* a deployment as repo.get_deployments() lists it, with what get_statuses
\* gives: "raise" when the call raises, "none" when totalCount is 0, else the
\* state of the latest status
OtherSha == Sha(0, 0)
Environments == {"github-pages", "production"}
States == {"raise", "none", "success", "failure", "error", "pending"}
Deployments(commit_sha) ==
  [sha : {commit_sha, OtherSha}, environment : Environments, state : States]
Listings(commit_sha) ==
  {L(x) : x \in UNION {[1..n -> Deployments(commit_sha)] : n \in 0..MaxDeployments}}

\* repo.get_deployments() raises
ListingRaises == [t |-> "exception"]

\* a condition that takes every deployment of the commit, whatever its environment
IsDeploymentOfCommit(deployment, commit_sha) == deployment.sha = commit_sha

\* deployment.sha == commit_sha and deployment.environment == "github-pages"
IsPagesDeployment(deployment, commit_sha) ==
  deployment.sha = commit_sha /\ deployment.environment = "github-pages"

RECURSIVE Scan(_, _)
\* the loop over the deployments of one poll: "true" or "false" when it
\* returns, "raise" when get_statuses raises, "none" when it runs to its end
Scan(deployments, commit_sha) ==
  IF deployments = <<>> THEN "none"
  ELSE LET d == Head(deployments)
       IN IF ~IsPagesDeployment(d, commit_sha) THEN Scan(Tail(deployments), commit_sha)
          ELSE IF d.state = "raise" THEN "raise"
          ELSE IF d.state = "none" THEN Scan(Tail(deployments), commit_sha)
          ELSE IF d.state = "success" THEN "true"
          ELSE IF d.state = "failure" \/ d.state = "error" THEN "false"
          ELSE Scan(Tail(deployments), commit_sha)

\* wait_for_pages_deployment is entered: attempt is the loop variable, polls
\* counts the calls of get_deployments, seen is what the one of this attempt
\* listed and sleeps the arguments of time.sleep
WaitFrame(commit_sha) ==
  [fn |-> "wait", pc |-> "poll", commit_sha |-> commit_sha, attempt |-> 0, polls |-> 0,
   seen |-> None, sleeps |-> <<>>, result |-> None]

PollInit ==
  /\ cfg = "set"
  /\ file = NoFile
  /\ repos = [t \in Tasks |-> IF t = ReqT2.task.v THEN WaitingRepo ELSE NoRepo]
  /\ units = [u \in Units |-> IF u = 1 THEN WaitingUnit ELSE FreeUnit]
  /\ outbox = <<>>
  /\ last = Idle
  /\ fault = FALSE
  /\ frame = WaitFrame(WaitingUnit.commit_sha)

\* the try block of one attempt
Poll ==
  /\ frame.fn = "wait" /\ frame.pc = "poll"
  /\ \E listing \in Listings(frame.commit_sha) \cup {ListingRaises} :
       LET verdict == IF listing.t = "exception" THEN "raise"
                      ELSE Scan(listing.v, frame.commit_sha)
           polled == [frame EXCEPT !.polls = @ + 1, !.seen = listing]
       IN frame' = IF verdict = "true" THEN [polled EXCEPT !.result = B(TRUE), !.pc = "returned"]
                   ELSE IF verdict = "false"
                        THEN [polled EXCEPT !.result = B(FALSE), !.pc = "returned"]
                        ELSE [polled EXCEPT !.pc = "sleep"]
  /\ UNCHANGED service

\* the end of one attempt: time.sleep(retry_delay) unless it was the last
\* one, and return False once the loop is over
PollSleep ==
  /\ frame.fn = "wait" /\ frame.pc = "sleep"
  /\ LET slept == IF frame.attempt < max_attempts - 1
                  THEN [frame EXCEPT !.sleeps = Append(@, retry_delay)]
                  ELSE frame
     IN frame' = IF frame.attempt + 1 < max_attempts
                 THEN [slept EXCEPT !.attempt = @ + 1, !.seen = None, !.pc = "poll"]
                 ELSE [slept EXCEPT !.result = B(FALSE), !.pc = "returned"]
  /\ UNCHANGED service

\* a unit that gives up when the deployment has ended in failure or error
PollReturnFailureRaises ==
  /\ frame.fn = "wait" /\ frame.pc = "returned"
  /\ IF frame.seen.t = "list" /\ Scan(frame.seen.v, frame.commit_sha) = "false"
     THEN /\ units[1].pc = "wait"
          /\ Raise(1, TRUE)
          /\ Quiet
          /\ UNCHANGED <<frame, cfg, file, outbox>>
     ELSE /\ WaitPages(1)
          /\ fault' = (frame.result # B(TRUE))

\* pages_ready = github.wait_for_pages_deployment(repo, commit_sha) has its value
PollReturn ==
  /\ frame.fn = "wait" /\ frame.pc = "returned"
  /\ WaitPages(1)
  /\ fault' = (frame.result # B(TRUE))

PollNext ==
  \/ Poll
  \/ PollSleep
  \/ PollReturn
  \/ Notify(1)
  \/ LoadStore(1)
  \/ SaveTruncate(1)
  \/ SaveWrite(1)

PollSpec == PollInit /\ [][PollNext]_vars /\ WF_vars(PollNext)

(***************************************************************************)
(* validator.py: RequestValidator.validate applied to request objects.     *)
(***************************************************************************)
\* a key the object does not have
Absent == [t |-> "absent"]

\* what an object may hold under each key
EmailValues == {Absent, S(<<"a", "@", "b">>), S(<<"a", "b">>), I(5)}
SecretValues == {Absent, S(<<"k">>)}
TaskValues == {Absent, S(<<"t">>), S(<<>>), I(5)}
RoundValues == {Absent, I(1), I(0), B(TRUE), S(<<"1">>)}
NonceValues == {Absent, S(<<"n">>), S(<<>>)}
BriefValues == {Absent, S(<<"a", "p", "p">>), S(<<>>)}
UrlValues == {Absent, S(<<"h", "t", "t", "p", ":", "/", "/", "e">>), S(<<"f", "t", "p">>)}
ChecksValues == {Absent, L(<<>>), S(<<"c">>)}
AttachmentsValues ==
  {Absent, L(<<TextAtt>>), S(<<"a">>), L(<<I(5)>>), L(<<D([name |-> S(<<"a">>)])>>)}

\* the object with the keys whose value is not Absent
Object(values) == [f \in {g \in DOMAIN values : values[g] # Absent} |-> values[f]]

\* validate is entered
ValidateFrame(data) == [fn |-> "validate", pc |-> "call", data |-> data, result |-> None]

ValidateInit ==
  /\ cfg \in {"empty", "set"}
  /\ file = NoFile
  /\ repos = [t \in Tasks |-> NoRepo]
  /\ units = [u \in Units |-> FreeUnit]
  /\ outbox = <<>>
  /\ last = Idle
  /\ fault = FALSE
  /\ \E email \in EmailValues, secret \in SecretValues, task \in TaskValues,
        round \in RoundValues, nonce \in NonceValues, brief \in BriefValues,
        evaluation_url \in UrlValues, checks \in ChecksValues,
        attachments \in AttachmentsValues :
       frame = ValidateFrame(Object(
         [email |-> email, secret |-> secret, task |-> task, round |-> round,
          nonce |-> nonce, brief |-> brief, evaluation_url |-> evaluation_url,
          checks |-> checks, attachments |-> attachments]))

\* is_valid, error_msg = RequestValidator.validate(data)
ValidateCall ==
  /\ frame.fn = "validate" /\ frame.pc = "call"
  /\ frame' = [frame EXCEPT !.result = Validate(frame.data), !.pc = "returned"]
  /\ UNCHANGED service

ValidateNext == ValidateCall

ValidateSpec == ValidateInit /\ [][ValidateNext]_vars

(***************************************************************************)
(* llm.py: CodeGenerator._strip_code_block applied to texts.               *)
(***************************************************************************)
\* longest text the stripper is applied to, in pieces
MaxWrapped == 6

\* the texts: letters, blanks, line ends and code fences
WrappedTexts == UNION {[1..n -> {"h", " ", "\n", FENCE}] : n \in 0..MaxWrapped}

\* _strip_code_block is entered
StripFrame(text) == [fn |-> "strip", pc |-> "call", text |-> text, result |-> None]

StripInit ==
  /\ cfg \in {"empty", "set"}
  /\ file = NoFile
  /\ repos = [t \in Tasks |-> NoRepo]
  /\ units = [u \in Units |-> FreeUnit]
  /\ outbox = <<>>
  /\ last = Idle
  /\ fault = FALSE
  /\ \E text \in WrappedTexts : frame = StripFrame(text)

\* html_part = self._strip_code_block(html_part)
StripCall ==
  /\ frame.fn = "strip" /\ frame.pc = "call"
  /\ frame' = [frame EXCEPT !.result = S(strip_code_block(frame.text)), !.pc = "returned"]
  /\ UNCHANGED service

StripNext == StripCall

StripSpec == StripInit /\ [][StripNext]_vars

(***************************************************************************)
(* main.py: Storage.get_key applied to two validated requests.             *)
(***************************************************************************)
\* field values that pass validate
KeyEmails == {S(<<"a", "@", "b">>), S(<<"a", "@", "b", ":", ":", "t">>)}
KeyTasks == {S(<<"t">>), S(<<"x">>), S(<<"t", ":", ":", "x">>)}
KeyRounds == {I(1), I(2), I(12)}
KeyNonces == {S(<<"n">>), S(<<"2", ":", ":", "n">>)}

\* the validated requests the keys are made of
KeyRequests ==
  {d \in {[ReqT1 EXCEPT !.email = e, !.task = t, !.round = r, !.nonce = n] :
            e \in KeyEmails, t \in KeyTasks, r \in KeyRounds, n \in KeyNonces} :
     Validate(d).ok}

\* get_key is about to be called for two requests
KeyFrame(first, second) ==
  [fn |-> "get_key", pc |-> "call", first |-> first, second |-> second,
   keys |-> <<>>]

KeyInit ==
  /\ cfg \in {"empty", "set"}
  /\ file = NoFile
  /\ repos = [t \in Tasks |-> NoRepo]
  /\ units = [u \in Units |-> FreeUnit]
  /\ outbox = <<>>
  /\ last = Idle
  /\ fault = FALSE
  /\ \E first \in KeyRequests, second \in KeyRequests : frame = KeyFrame(first, second)

\* key = Storage.get_key(data), for each of the two requests
KeyCall ==
  /\ frame.fn = "get_key" /\ frame.pc = "call"
  /\ frame' = [frame EXCEPT !.keys = <<get_key(frame.first), get_key(frame.second)>>,
                            !.pc = "returned"]
  /\ UNCHANGED service

KeyNext == KeyCall

KeySpec == KeyInit /\ [][KeyNext]_vars

(***************************************************************************)
(* llm.py: AttachmentDecoder.decode applied to attachment lists.           *)
(***************************************************************************)
\* longest attachment list
MaxAttachments == 3

\* a data URI whose payload is no base64 text, and one without a comma
BadAtt == D([name |-> S(<<"e", ".", "t", "x", "t">>), url |-> S(DataPrefix \o <<"t", ";", "b", ",", "Q">>)])
NoCommaAtt == D([name |-> S(<<"f", ".", "t", "x", "t">>), url |-> S(DataPrefix \o <<"t">>)])

\* the attachments of a validated request: dictionaries with name and url
AttachmentValues == {TextAtt, BinAtt, LinkAtt, BadAtt, NoCommaAtt, NumAtt}

\* decode is entered
DecodeFrame(attachments) ==
  [fn |-> "decode", pc |-> "call", attachments |-> attachments, saved |-> <<>>]

DecodeInit ==
  /\ cfg \in {"empty", "set"}
  /\ file = NoFile
  /\ repos = [t \in Tasks |-> NoRepo]
  /\ units = [u \in Units |-> FreeUnit]
  /\ outbox = <<>>
  /\ last = Idle
  /\ fault = FALSE
  /\ \E n \in 0..MaxAttachments : \E attachments \in [1..n -> AttachmentValues] :
       frame = DecodeFrame(attachments)

\* saved_attachments = AttachmentDecoder.decode(attachments): the list, or the
\* exception of url.startswith
DecodeCall ==
  /\ frame.fn = "decode" /\ frame.pc = "call"
  /\ frame' = IF DecodeRaises(frame.attachments)
              THEN [frame EXCEPT !.pc = "raised"]
              ELSE [frame EXCEPT !.pc = "returned", !.saved = Decode(frame.attachments)]
  /\ UNCHANGED service

DecodeNext == DecodeCall

DecodeSpec == DecodeInit /\ [][DecodeNext]_vars

(***************************************************************************)
(* main.py: the event loop that runs receive_request, with the units in    *)
(* worker threads. receive_request is a coroutine (async def) and the      *)
(* notify it calls for a duplicate is a plain function that posts and      *)
(* sleeps without await: until notify returns the loop runs no other       *)
(* handler. process_request_background is a plain function, which          *)
(* BackgroundTasks runs in a thread of its own.                            *)
(***************************************************************************)
\* the request bodies the server receives here
ServeBodies == {Body(ReqT2), NotJson}

\* receive_request has found the key of b in the store and is inside
\* EvaluationNotifier.notify(data["evaluation_url"], prev_payload)
ReplayFrame(b, prev_payload) ==
  [fn |-> "receive_request", pc |-> "post", body |-> b, prev_payload |-> prev_payload,
   attempt |-> 0]

\* the request is one that receive_request answers from the store
IsDuplicate(b) ==
  /\ b.json /\ Validate(b.data).ok /\ SecretOk(b.data)
  /\ get_key(b.data) \in DOMAIN Load(file)

ServeInit == Init

\* the loop starts receive_request for b: up to its response when the request
\* is refused or accepted, up to the call of notify when it is a duplicate
ServeReceive(b) ==
  /\ frame = NoFrame
  /\ IF IsDuplicate(b)
     THEN /\ Cardinality({i \in 1..Len(outbox) : outbox[i].by = 0}) < MaxReplays
          /\ frame' = ReplayFrame(b, Load(file)[get_key(b.data)])
          /\ last' = Idle
          /\ fault' = FALSE
          /\ UNCHANGED <<cfg, file, repos, units, outbox>>
     ELSE Receive(b)

\* one httpx.post of the handler's notify; notify returns on status 200 and
\* after the last attempt, and receive_request then answers
ServePost ==
  /\ frame.fn = "receive_request" /\ frame.pc = "post"
  /\ \E delivered \in BOOLEAN :
       IF delivered \/ frame.attempt = MAX_RETRIES - 1
       THEN /\ outbox' = Append(outbox, NotifyCall(frame.body.data.evaluation_url,
                                                   frame.prev_payload, 0))
            /\ last' = [Idle EXCEPT !.body = frame.body, !.code = 200, !.status = "duplicate",
                                    !.previous_result = frame.prev_payload,
                                    !.notified = <<frame.prev_payload>>]
            /\ Outcome(delivered)
            /\ frame' = NoFrame
            /\ UNCHANGED <<cfg, file, repos, units>>
       ELSE /\ frame' = [frame EXCEPT !.pc = "sleep"]
            /\ last' = Idle
            /\ Outcome(FALSE)
            /\ UNCHANGED <<cfg, file, repos, units, outbox>>

\* time.sleep(delay) of the handler's notify, in the thread of the loop
ServeSleep ==
  /\ frame.fn = "receive_request" /\ frame.pc = "sleep"
  /\ frame' = [frame EXCEPT !.attempt = @ + 1, !.pc = "post"]
  /\ last' = Idle
  /\ Outcome(TRUE)
  /\ UNCHANGED <<cfg, file, repos, units, outbox>>

ServeNext ==
  \/ \E b \in ServeBodies : ServeReceive(b)
  \/ ServePost
  \/ ServeSleep
  \/ \E u \in Units :
       \/ BgInit(u)
       \/ GetRepo(u)
       \/ CreateRepo(u)
       \/ FetchReadme(u)
       \/ FetchHtml(u)
       \/ Generate(u)
       \/ CommitReadme(u)
       \/ CommitIndex(u)
       \/ GetSha(u)
       \/ WaitPages(u)
       \/ Notify(u)
       \/ LoadStore(u)
       \/ SaveTruncate(u)
       \/ SaveWrite(u)

ServeSpec == ServeInit /\ [][ServeNext]_vars

(***************************************************************************)
(* main.py: one background unit from its scheduling to its end, with the   *)
(* loops of wait_for_pages_deployment and of notify followed attempt by    *)
(* attempt, and an identical request that arrives after the unit's end.    *)
(***************************************************************************)
\* the requests of the unit
RunRequests == {ReqT1, ReqT2}

RunInit ==
  /\ cfg \in GeminiConfigs
  /\ file = NoFile
  /\ repos = [t \in Tasks |-> NoRepo]
  /\ outbox = <<>>
  /\ fault = FALSE
  /\ frame = NoFrame
  /\ \E data \in RunRequests :
       /\ units = [u \in Units |->
                     IF u = 1 THEN [FreeUnit EXCEPT !.pc = "scheduled", !.data = data]
                     ELSE FreeUnit]
       /\ last = [Idle EXCEPT !.body = Body(data), !.code = 200, !.status = "accepted",
                              !.scheduled = 1]

\* the unit enters github.wait_for_pages_deployment(repo, commit_sha):
\* attempt is the loop variable
UnitWaitFrame == [fn |-> "unit_wait", pc |-> "poll", attempt |-> 0, result |-> None]

RunEnterWait ==
  /\ units[1].pc = "wait" /\ frame = NoFrame
  /\ frame' = UnitWaitFrame
  /\ UNCHANGED service

\* what the try block of one attempt comes to: it returns True or False on
\* a terminal state, finds none, or raises
Verdicts == {"true", "false", "none", "raise"}

\* the try block of one attempt of the unit's wait
RunPoll ==
  /\ frame.fn = "unit_wait" /\ frame.pc = "poll"
  /\ \E verdict \in Verdicts :
       frame' = IF verdict = "true" THEN [frame EXCEPT !.result = B(TRUE), !.pc = "returned"]
                ELSE IF verdict = "false"
                     THEN [frame EXCEPT !.result = B(FALSE), !.pc = "returned"]
                     ELSE [frame EXCEPT !.pc = "sleep"]
  /\ UNCHANGED service

\* a wait that polls until it sees a terminal state
RunPollSleepUnbounded ==
  /\ frame.fn = "unit_wait" /\ frame.pc = "sleep"
  /\ frame' = [frame EXCEPT !.pc = "poll"]
  /\ UNCHANGED service

\* the end of one attempt of the unit's wait: the sleep unless it was the last
\* one, and return False once the loop is over
RunPollSleep ==
  /\ frame.fn = "unit_wait" /\ frame.pc = "sleep"
  /\ frame' = IF frame.attempt + 1 < max_attempts
              THEN [frame EXCEPT !.attempt = @ + 1, !.pc = "poll"]
              ELSE [frame EXCEPT !.result = B(FALSE), !.pc = "returned"]
  /\ UNCHANGED service

\* wait_for_pages_deployment has returned to the unit
RunWaitReturn ==
  /\ frame.fn = "unit_wait" /\ frame.pc = "returned"
  /\ WaitPages(1)
  /\ fault' = (frame.result # B(TRUE))

\* the unit enters EvaluationNotifier.notify: attempt is the loop variable
UnitNotifyFrame == [fn |-> "unit_notify", pc |-> "post", attempt |-> 0, result |-> None]

RunEnterNotify ==
  /\ units[1].pc = "notify" /\ frame.fn = "unit_wait"
  /\ frame' = UnitNotifyFrame
  /\ UNCHANGED service

\* one httpx.post of the unit's notify: return True on status 200
RunPost ==
  /\ frame.fn = "unit_notify" /\ frame.pc = "post"
  /\ \E delivered \in BOOLEAN :
       frame' = IF delivered THEN [frame EXCEPT !.result = B(TRUE), !.pc = "returned"]
                ELSE [frame EXCEPT !.pc = "sleep"]
  /\ UNCHANGED service

\* the end of one iteration of the unit's notify: the sleep unless it was the
\* last attempt, and return False once the loop is over
RunBackoff ==
  /\ frame.fn = "unit_notify" /\ frame.pc = "sleep"
  /\ frame' = IF frame.attempt + 1 < MAX_RETRIES
              THEN [frame EXCEPT !.attempt = @ + 1, !.pc = "post"]
              ELSE [frame EXCEPT !.result = B(FALSE), !.pc = "returned"]
  /\ UNCHANGED service

\* notify has returned to the unit, which drops the result
RunNotifyReturn ==
  /\ frame.fn = "unit_notify" /\ frame.pc = "returned"
  /\ Notify(1)
  /\ fault' = (frame.result # B(TRUE))

\* the request of the unit is posted again once the unit has ended
RunResend ==
  /\ units[1].pc \in {"done", "failed"}
  /\ Receive(Body(units[1].data))

RunNext ==
  \/ BgInit(1)
  \/ GetRepo(1)
  \/ CreateRepo(1)
  \/ FetchReadme(1)
  \/ FetchHtml(1)
  \/ Generate(1)
  \/ CommitLicense(1)
  \/ CommitAttachment(1)
  \/ CommitReadme(1)
  \/ EnablePages(1)
  \/ CommitIndex(1)
  \/ GetSha(1)
  \/ RunEnterWait
  \/ RunPoll
  \/ RunPollSleep
  \/ RunWaitReturn
  \/ RunEnterNotify
  \/ RunPost
  \/ RunBackoff
  \/ RunNotifyReturn
  \/ LoadStore(1)
  \/ SaveTruncate(1)
  \/ SaveWrite(1)
  \/ RunResend

RunSpec == RunInit /\ [][RunNext]_vars /\ WF_vars(RunNext)

(***************************************************************************)
(* Properties.                                                             *)
(***************************************************************************)
\* the dedup key of the request a unit works on
Key(u) == get_key(units[u].data)

\* process_request_background has been entered for the unit's request
Begun(u) == units[u].pc \notin {"free", "scheduled"}

\* the latest step was receive_request answering body b
Answered(b) == last'.status # "none" /\ last'.body = b

\* the unit's log has a commit of path before position j
CommittedBefore(u, path, j) ==
  \E i \in 1..(j - 1) : units[u].log[i].op = "commit" /\ units[u].log[i].path = path

\* the unit has committed path
Committed(u, path) == CommittedBefore(u, path, Len(units[u].log) + 1)

\* the unit has called op
Called(u, op) == \E i \in 1..Len(units[u].log) : units[u].log[i].op = op

\* C1: for every timing of two identical requests, the publish pipeline is
\* started at most once per dedup key: no two units that have begun work on
\* requests with the same key.
C1_OnePipelinePerKey ==
  \A u \in Units, w \in Units :
    (u # w /\ Begun(u) /\ Begun(w)) => Key(u) # Key(w)

\* C2: a valid request with the right secret whose key is in the store when
\* it is looked up schedules no unit, calls notify exactly once with the
\* stored record as the payload, and returns status duplicate with
\* previous_result equal to that stored record; the store is left as it was.
C2_DuplicateReplaysStored ==
  [][\A b \in Bodies :
       (/\ Answered(b)
        /\ b.json
        /\ Validate(b.data).ok
        /\ b.data.secret = USER_SECRET
        /\ get_key(b.data) \in DOMAIN Load(file))
       => LET stored == Load(file)[get_key(b.data)]
          IN /\ last'.status = "duplicate"
             /\ last'.code = 200
             /\ last'.previous_result = stored
             /\ last'.scheduled = 0
             /\ units' = units
             /\ outbox' = Append(outbox, NotifyCall(b.data.evaluation_url, stored, 0))
             /\ file' = file]_vars

\* a duplicate was answered with the record a finished unit stored, and the
\* evaluator got that record from the handler
C2_Witness ==
  /\ last.status = "duplicate"
  /\ outbox # <<>>
  /\ outbox[Len(outbox)].by = 0
  /\ \E u \in Units :
       /\ units[u].pc = "done"
       /\ Key(u) = get_key(last.body.data)
       /\ last.previous_result = units[u].payload
       /\ outbox[Len(outbox)].payload = units[u].payload

\* C3: a request of valid shape whose secret is not Config.USER_SECRET is
\* answered 403, schedules no unit and sends no notification, also when its
\* key is already stored, and leaves the store unchanged.
C3_WrongSecretRejected ==
  [][\A b \in Bodies :
       (/\ Answered(b)
        /\ b.json
        /\ Validate(b.data).ok
        /\ b.data.secret # USER_SECRET)
       => /\ last'.code = 403
          /\ last'.status = "error"
          /\ units' = units
          /\ outbox' = outbox
          /\ file' = file]_vars

\* a request with a wrong secret was refused while its key was in the store
C3_Witness ==
  /\ last.code = 403
  /\ last.body.data.secret # USER_SECRET
  /\ get_key(last.body.data) \in DOMAIN Load(file)

\* C4: a request is answered accepted only after validation, the secret
\* check and the lookup found the key absent; the answer comes with no
\* repository, notification or store step done and with the unit only
\* scheduled; such steps happen in steps of a begun unit, never in the handler.
C4_AcceptedBeforePipeline ==
  [][/\ \A b \in Bodies :
          Answered(b) =>
            /\ last'.status = "accepted"
                 <=> (/\ b.json
                      /\ Validate(b.data).ok
                      /\ b.data.secret = USER_SECRET
                      /\ get_key(b.data) \notin DOMAIN Load(file))
            /\ last'.status = "accepted" =>
                 /\ repos' = repos
                 /\ outbox' = outbox
                 /\ file' = file
                 /\ units[last'.scheduled].pc = "free"
                 /\ units'[last'.scheduled] =
                      [FreeUnit EXCEPT !.pc = "scheduled", !.data = b.data]
                 /\ \A w \in Units \ {last'.scheduled} : units'[w] = units[w]
     /\ (repos' # repos \/ file' # file) => last' = Idle
     /\ \A u \in Units :
          (units'[u].log # units[u].log \/ units'[u].files # units[u].files)
            => (last' = Idle /\ Begun(u))
     /\ (Len(outbox') > Len(outbox) /\ outbox'[Len(outbox')].by # 0)
          => (last' = Idle /\ Begun(outbox'[Len(outbox')].by))]_vars

\* a request was accepted and its unit waits to be run
C4_Witness ==
  /\ last.status = "accepted"
  /\ units[last.scheduled].pc = "scheduled"
  /\ units[last.scheduled].data = last.body.data

\* C5: once a record is written under a key, the value stored under that
\* key never changes: while the key is in the store, it holds what a unit
\* that finished with that key wrote.
C5_StoredValueNeverChanges ==
  \A u \in Units :
    (units[u].pc = "done" /\ Key(u) \in DOMAIN Load(file))
      => Load(file)[Key(u)] = units[u].payload

\* C6: once a unit has written its record, its key stays in the store, also
\* when other units rewrite the whole store (states in which a write is under
\* way and the file is cut are left out).
C6_KeyStaysPresent ==
  \A u \in Units :
    (units[u].pc = "done" /\ file # Torn) => Key(u) \in DOMAIN Load(file)

\* C7: when every collaborator answers successfully a unit runs generation,
\* publish, notifier and the store write; in particular a unit ends in its
\* exception handler only in a step in which a collaborator failed.
C7_UnitFailsOnlyOnCollaborator ==
  [][\A u \in Units :
       (units[u].pc # "failed" /\ units'[u].pc = "failed") => fault']_vars

\* C8: in every run, round 1 or later, the README.md commit is completed
\* before the index.html commit is issued.
C8_ReadmeBeforeIndex ==
  \A u \in Units :
    /\ units[u].pc = "index" => Committed(u, README)
    /\ \A j \in 1..Len(units[u].log) :
         (units[u].log[j].op = "commit" /\ units[u].log[j].path = INDEX)
           => CommittedBefore(u, README, j)

\* a round 1 unit and a later-round unit have both committed index.html
C8_Witness ==
  \E u \in Units, w \in Units :
    /\ Begun(u) /\ Round(u) = 1 /\ Committed(u, INDEX)
    /\ Begun(w) /\ Round(w) >= 2 /\ Committed(w, INDEX)

\* C9: the commit_sha a unit polls with, notifies and persists is the
\* identifier of that unit's own index.html commit, for every interleaving
\* of units on the same repository.
C9_ShaIsOwnIndexCommit ==
  \A u \in Units :
    units[u].commit_sha # None =>
      \E j \in 1..Len(units[u].log) :
        /\ units[u].log[j].op = "commit"
        /\ units[u].log[j].path = INDEX
        /\ units[u].log[j].sha = units[u].commit_sha

PastLicense ==
  {"attach", "readme", "pages", "index", "sha", "wait", "notify", "load", "truncate", "write",
   "done"}
PastAttachments == PastLicense \ {"attach"}
PastPages == PastAttachments \ {"readme", "pages"}

\* C10: the LICENSE commit, the attachment commits and the enable-pages call
\* are executed exactly when round is 1; in a later round none of them is
\* executed and the previous README.md and index.html are fetched before
\* generation and passed to generate.
C10_RoundOneStepsAndFetch ==
  \A u \in Units :
    (Begun(u) /\ units[u].pc # "failed") =>
      /\ Round(u) = 1 =>
           /\ units[u].pc \in PastLicense => Committed(u, LICENSE)
           /\ units[u].pc \in PastAttachments =>
                units[u].att_i = Len(units[u].saved_attachments) + 1
           /\ units[u].pc \in PastPages => Called(u, "enable_pages")
      /\ Round(u) >= 2 =>
           /\ ~Called(u, "enable_pages")
           /\ units[u].att_i = 1
           /\ \A i \in 1..Len(units[u].log) :
                units[u].log[i].op = "commit" => units[u].log[i].path \in {README, INDEX}
           /\ \A j \in 1..Len(units[u].log) :
                units[u].log[j].op = "generate" =>
                  /\ j = 3
                  /\ units[u].log[1] = [op |-> "fetch", path |-> README,
                                        got |-> units[u].log[j].args.prev_readme]
                  /\ units[u].log[2] = [op |-> "fetch", path |-> INDEX,
                                        got |-> units[u].log[j].args.prev_html]

\* a round 1 unit has run its three round 1 steps, one of them an attachment
\* commit, and a later-round unit with an attachment has generated from the
\* files it fetched
C10_Witness ==
  \E u \in Units, w \in Units :
    /\ Begun(u) /\ Round(u) = 1 /\ Called(u, "enable_pages")
    /\ Committed(u, LICENSE)
    /\ \E i \in 1..Len(units[u].log) :
         units[u].log[i].op = "commit" /\ units[u].log[i].path \notin {README, INDEX, LICENSE}
    /\ Begun(w) /\ Round(w) >= 2 /\ units[w].saved_attachments # <<>>
    /\ Committed(w, INDEX)
    /\ units[w].prev_html # None /\ units[w].prev_readme # None

\* C11: in every round >= 2, not only round 2, in which a previous readme or
\* a previous markup was fetched, the prompt holds the previous-version
\* section with what was fetched; in round 1, or when neither was fetched,
\* the prompt has no such section.
C11_ContextInEveryRevision ==
  \A u \in Units :
    \A j \in 1..Len(units[u].log) :
      units[u].log[j].op = "generate" =>
        LET a == units[u].log[j].args
            c == units[u].log[j].prompt.context
            Holds(text) == \E i \in 1..Len(c) : "body" \in DOMAIN c[i] /\ c[i].body = text
        IN IF a.round_num >= 2 /\ (a.prev_readme # None \/ a.prev_html # None)
           THEN /\ c # <<>>
                /\ a.prev_readme # None => Holds(a.prev_readme)
                /\ a.prev_html # None => Holds(a.prev_html)
           ELSE c = <<>>

\* C12: whatever the providers do (the first returns any text, the first
\* fails and the second returns any text, both fail), the dictionary generate
\* returns has a non-empty index.html and a non-empty README.md.
C12_ArtifactsNeverEmpty ==
  (frame.fn = "generate" /\ frame.pc = "returned") =>
    (frame.files["index.html"] # <<>> /\ frame.files["README.md"] # <<>>)

\* C13: generate never raises, whatever the providers and the decoding of the
\* attachments do, and when all providers fail the files it returns are the
\* two sides of the fallback page, which holds the marker.
C13_GenerateNeverRaises ==
  frame.fn = "generate" =>
    /\ frame.pc # "raised"
    /\ (frame.pc = "returned" /\ frame.provider = "fallback") =>
         LET page == fallback_html(frame.brief, frame.checks)
         IN /\ Contains(page, MARKER)
            /\ frame.files["index.html"] = SplitAtMarker(page).html
            /\ frame.files["README.md"] = SplitAtMarker(page).readme

\* a response with an HTTP-level success status
HttpSuccess(r) == r.t = "response" /\ r.status_code \in 200..299

\* C14: notify makes its attempts in sequence and stops at the first
\* successful one: no attempt follows a successful attempt, it returns true
\* right after the first successful attempt, number k <= MAX_RETRIES, and it
\* returns false only after MAX_RETRIES attempts that all failed, by status
\* or by exception.
C14_StopsAtFirstSuccess ==
  frame.fn = "notify" =>
    LET n == Len(frame.responses)
    IN /\ n <= MAX_RETRIES
       /\ \A i \in 1..(n - 1) : ~HttpSuccess(frame.responses[i])
       /\ frame.pc = "returned" =>
            /\ frame.result = B(TRUE) <=> HttpSuccess(frame.responses[n])
            /\ frame.result = B(FALSE) =>
                 (n = MAX_RETRIES /\ \A i \in 1..n : ~HttpSuccess(frame.responses[i]))

\* C15: the sleep after the i-th failed attempt lasts INITIAL_DELAY * 2^(i-1),
\* there is exactly one sleep between two consecutive attempts, and there is
\* no sleep after the MAX_RETRIES-th attempt or after a successful attempt.
C15_BackoffDelays ==
  frame.fn = "notify" =>
    LET n == Len(frame.responses)
        m == Len(frame.sleeps)
    IN /\ \A i \in 1..m : frame.sleeps[i] = INITIAL_DELAY * 2^(i - 1)
       /\ \A i \in 1..m : ~HttpSuccess(frame.responses[i])
       /\ m <= MAX_RETRIES - 1
       /\ frame.pc = "post" => m = n
       /\ frame.pc = "sleep" => m = n - 1
       /\ frame.pc = "returned" => m = IF frame.result = B(TRUE) THEN n - 1 ELSE MAX_RETRIES - 1

\* C16: an attempt whose response has any 2xx status, not only 200, ends
\* the loop and makes notify return true.
C16_Any2xxEndsLoop ==
  frame.fn = "notify" =>
    \A i \in 1..Len(frame.responses) :
      HttpSuccess(frame.responses[i]) =>
        (i = Len(frame.responses) /\ frame.pc = "returned" /\ frame.result = B(TRUE))

\* a deployment of the commit waited for, in the environment github-pages
OfTarget(d) == d.sha = frame.commit_sha /\ d.environment = "github-pages"

\* the positions of such deployments in the listing of this attempt
Targets == IF frame.seen.t = "list"
           THEN {i \in 1..Len(frame.seen.v) : OfTarget(frame.seen.v[i])} ELSE {}

\* this attempt listed such a deployment with a latest status in states
TargetIn(states) == \E i \in Targets : frame.seen.v[i].state \in states

\* this attempt saw no terminal state: the listing raised, or no deployment
\* of the target has a latest status success, failure or error
NoTerminal ==
  frame.seen.t = "exception" \/ (frame.seen.t = "list" /\ ~TargetIn({"success", "failure", "error"}))

Persisted ==
  /\ units[1].pc = "done"
  /\ \E i \in 1..Len(outbox) :
       outbox[i].by = 1 /\ outbox[i].payload.commit_sha = frame.commit_sha
  /\ Key(1) \in DOMAIN Load(file)

\* the call has returned and its last poll saw no terminal state
Unconfirmed == frame.fn = "wait" /\ frame.pc = "returned" /\ NoTerminal

\* C18: when no poll sees a terminal state, wait_for_pages_deployment
\* returns false after exactly max_attempts polls and max_attempts - 1 sleeps
\* of retry_delay, and the unit still notifies the evaluator and persists
\* its record.
C18_UnconfirmedStillNotifies ==
  /\ [](Unconfirmed =>
          /\ frame.result = B(FALSE)
          /\ frame.polls = max_attempts
          /\ frame.sleeps = [i \in 1..(max_attempts - 1) |-> retry_delay]
          /\ units[1].pc # "failed")
  /\ (Unconfirmed ~> Persisted)

\* the unit is done after a wait whose polls all raised or saw nothing terminal
C18_Witness ==
  /\ Unconfirmed
  /\ frame.polls = max_attempts
  /\ Len(frame.sleeps) = max_attempts - 1
  /\ Persisted

\* the seven required keys
RequiredKeys == {"email", "secret", "task", "round", "nonce", "brief", "evaluation_url"}

\* C19: for every request object that lacks a non-empty set M of the seven
\* required keys, validate returns invalid and its reason names exactly the
\* keys of M, each once, whatever the values of the keys that are present.
C19_MissingKeysNamed ==
  (frame.fn = "validate" /\ frame.pc = "returned") =>
    LET M == RequiredKeys \ DOMAIN frame.data
        named == frame.result.missing
    IN M # {} =>
         /\ ~frame.result.ok
         /\ frame.result.msg = "Missing required fields"
         /\ {named[i] : i \in 1..Len(named)} = M
         /\ Len(named) = Cardinality(M)

\* an object that lacks two required keys and holds a number as its email and
\* a text as its attachments was refused with the two keys named
C19_Witness ==
  /\ frame.fn = "validate" /\ frame.pc = "returned"
  /\ Cardinality(RequiredKeys \ DOMAIN frame.data) = 2
  /\ "email" \in DOMAIN frame.data /\ frame.data.email = I(5)
  /\ "attachments" \in DOMAIN frame.data /\ frame.data.attachments.t = "str"
  /\ Len(frame.result.missing) = 2

\* a text, a non-empty text, an integer (true and false are no integers)
IsText(x) == x.t = "str"
IsNonEmptyText(x) == x.t = "str" /\ x.v # <<>>
IsInteger(x) == x.t = "int"

\* the number of the first of the checks 1 to 8 that the object fails, 0
\* when it passes all
FirstFailing(data) ==
  IF RequiredKeys \ DOMAIN data # {} THEN 1
  ELSE IF ~(IsText(data.email) /\ \E i \in 1..Len(data.email.v) : data.email.v[i] = "@") THEN 2
  ELSE IF ~IsNonEmptyText(data.task) THEN 3
  ELSE IF ~(IsInteger(data.round) /\ data.round.v >= 1) THEN 4
  ELSE IF ~IsNonEmptyText(data.nonce) THEN 5
  ELSE IF ~IsNonEmptyText(data.brief) THEN 6
  ELSE IF ~(IsText(data.evaluation_url) /\ Len(data.evaluation_url.v) >= 4
            /\ SubSeq(data.evaluation_url.v, 1, 4) = <<"h", "t", "t", "p">>) THEN 7
  ELSE IF \/ "checks" \in DOMAIN data /\ data.checks.t # "list"
          \/ "attachments" \in DOMAIN data /\ data.attachments.t # "list"
          \/ /\ "attachments" \in DOMAIN data
             /\ \E i \in 1..Len(data.attachments.v) :
                  \/ data.attachments.v[i].t # "dict"
                  \/ {"name", "url"} \ DOMAIN data.attachments.v[i].v # {}
       THEN 8
  ELSE 0

\* the reasons validate gives for each check
Reasons ==
  <<{"Missing required fields"}, {"Invalid email format"}, {"Task must be a non-empty string"},
    {"Round must be a positive integer"}, {"Nonce must be a non-empty string"},
    {"Brief must be a non-empty string"}, {"Evaluation URL must be a valid HTTP(S) URL"},
    {"Checks must be a list", "Attachments must be a list",
     "Each attachment must have 'name' and 'url'"}>>

\* C20: validate applies the checks 1 to 8 in their order and gives the
\* reason of the first one that fails; it returns valid, without a reason,
\* exactly when all eight pass.
C20_FirstFailingCheckDecides ==
  (frame.fn = "validate" /\ frame.pc = "returned") =>
    LET k == FirstFailing(frame.data)
    IN IF k = 0 THEN frame.result.ok /\ frame.result.msg = ""
       ELSE ~frame.result.ok /\ frame.result.msg \in Reasons[k]

\* a step in which unit u raises into the handler at the top of the unit
Fails(u) == units[u].pc # "failed" /\ units'[u].pc = "failed"

Inked(t) == {i \in 1..Len(t) : t[i] \notin {" ", "\n"}}

\* t without the white space at its two ends
Trimmed(t) ==
  IF Inked(t) = {} THEN <<>>
  ELSE SubSeq(t, CHOOSE i \in Inked(t) : \A j \in Inked(t) : i <= j,
                 CHOOSE i \in Inked(t) : \A j \in Inked(t) : i >= j)

\* the positions of the marker in t
Marks(t) == {i \in 1..Len(t) : t[i] = MARKER}

\* the call of generate has returned its files
Generated == frame.fn = "generate" /\ frame.pc = "returned"

\* C22: when the generated text contains the marker, the two halves that are
\* parsed are the trimmed text before its first occurrence and the trimmed
\* text after it; when it does not, they are the whole trimmed text and the
\* fallback readme built from brief, checks, saved attachments and round. Each
\* file is its half after the removal of the code-block wrapper.
C22_SplitAtFirstMarker ==
  Generated =>
    LET text == frame.generated_text.v
        k == CHOOSE i \in Marks(text) : \A j \in Marks(text) : i <= j
    IN IF Marks(text) # {}
       THEN /\ frame.files["index.html"] = strip_code_block(Trimmed(SubSeq(text, 1, k - 1)))
            /\ frame.files["README.md"] = strip_code_block(Trimmed(SubSeq(text, k + 1, Len(text))))
       ELSE /\ frame.files["index.html"] = strip_code_block(Trimmed(text))
            /\ frame.files["README.md"] =
                 strip_code_block(generate_fallback_readme(frame.brief, frame.checks,
                                                           frame.saved_attachments, frame.round_num))

\* a provider's text with two markers was parsed: the readme holds the second
C22_Witness ==
  /\ Generated /\ frame.provider = "groq"
  /\ Cardinality(Marks(frame.generated_text.v)) = 2
  /\ frame.generated_text.v[1] = "h"
  /\ frame.files["index.html"] = <<"h">>
  /\ frame.files["README.md"] = <<MARKER>>

\* the positions of the line ends of t
LineEnds(t) == {i \in 1..Len(t) : t[i] = "\n"}

\* t without its first line
AfterFirstLine(t) ==
  IF LineEnds(t) = {} THEN <<>>
  ELSE SubSeq(t, (CHOOSE i \in LineEnds(t) : \A j \in LineEnds(t) : i <= j) + 1, Len(t))

\* where the last line of t begins
LastLineStart(t) ==
  IF LineEnds(t) = {} THEN 1
  ELSE (CHOOSE i \in LineEnds(t) : \A j \in LineEnds(t) : i >= j) + 1

\* what a wrapper holds: t without its first line, and without its last line
\* when that is a code fence
Inner(t) ==
  LET r == AfterFirstLine(t)
      k == LastLineStart(r)
  IN IF Trimmed(SubSeq(r, k, Len(r))) # <<FENCE>> THEN r
     ELSE IF k = 1 THEN <<>>
     ELSE SubSeq(r, 1, k - 2)

\* C23: a text whose first line begins with a code fence loses that line, tag
\* included, and a last line that is a code fence, and the trimmed inner text
\* is returned, whatever it begins with; a text that does not begin with a
\* code fence is returned trimmed and otherwise unchanged.
C23_OneWrapperRemoved ==
  (frame.fn = "strip" /\ frame.pc = "returned") =>
    LET t == Trimmed(frame.text)
    IN IF t # <<>> /\ t[1] = FENCE
       THEN frame.result.v = Trimmed(Inner(t))
       ELSE frame.result.v = t

\* a wrapper with a tagged opening line around a text that itself opens a
\* code block: the inner fence stays
C23_Witness ==
  /\ frame.fn = "strip" /\ frame.pc = "returned"
  /\ frame.text = <<FENCE, "h", "\n", FENCE, "\n", FENCE>>
  /\ frame.result.v = <<FENCE>>

\* the tuple a key stands for
Tuple(data) == <<data.email, data.task, data.round, data.nonce>>

\* C24: two validated requests have the same key exactly when their tuples
\* (email, task, round, nonce) are equal.
C24_KeyIdentifiesTuple ==
  (frame.fn = "get_key" /\ frame.pc = "returned") =>
    ((frame.keys[1] = frame.keys[2]) <=> (Tuple(frame.first) = Tuple(frame.second)))

\* the positions in the unit's log of the calls of op (of the commits of
\* path when op is commit)
At(u, op, path) ==
  {i \in 1..Len(units[u].log) :
     /\ units[u].log[i].op = op
     /\ op = "commit" => units[u].log[i].path = path}

\* the log of a finished round-1 unit holds, in this order, the commit of
\* README.md, enable_pages, the commit of index.html, the wait, the
\* notification and the dedup write
TailOfRoundOne(u) ==
  \E r \in At(u, "commit", README), p \in At(u, "enable_pages", <<>>),
     x \in At(u, "commit", INDEX), w \in At(u, "wait", <<>>),
     n \in At(u, "notify", <<>>), s \in At(u, "save", <<>>) :
    r < p /\ p < x /\ x < w /\ w < n /\ n < s

\* the unit's commits of attachments, in the order it made them
AttachmentCommits(u) ==
  SelectSeq(units[u].log,
            LAMBDA e : e.op = "commit" /\ e.path \notin {README, INDEX, LICENSE})

\* C25: in a round-1 unit a step of the attachment loop, its commit refused
\* or not, goes on to the next saved attachment, and after the last one to
\* README.md; the attachments committed are in the order of the saved ones;
\* and a unit that finishes has committed README.md, called enable_pages and
\* committed index.html, then notified and written the dedup record, however
\* many attachment commits were refused.
C25_AttachmentFailureSkipped ==
  /\ [][\A u \in Units :
          (units[u].pc = "attach" /\ units'[u] # units[u]) =>
            /\ units'[u].att_i = units[u].att_i + 1
            /\ units'[u].pc =
                 IF units[u].att_i < Len(units[u].saved_attachments) THEN "attach" ELSE "readme"
            /\ fault' => repos' = repos]_vars
  /\ [](\A u \in Units :
          (Begun(u) /\ Round(u) = 1) =>
            /\ \E f \in [1..Len(AttachmentCommits(u)) -> 1..Len(units[u].saved_attachments)] :
                 /\ \A i \in DOMAIN f : AttachmentCommits(u)[i].path = units[u].saved_attachments[f[i]].name
                 /\ \A i, j \in DOMAIN f : i < j => f[i] < f[j]
            /\ units[u].pc = "done" => TailOfRoundOne(u))

\* a round-1 unit with two saved attachments has finished: the commit of the
\* first was refused, the second was committed
C25_Witness ==
  \E u \in Units :
    /\ units[u].pc = "done" /\ Round(u) = 1
    /\ Len(units[u].saved_attachments) = 2
    /\ Len(AttachmentCommits(u)) = 1
    /\ AttachmentCommits(u)[1].path = units[u].saved_attachments[2].name
    /\ Key(u) \in DOMAIN Load(file)

\* C26: in a round-1 unit the step that calls enable_pages leaves the unit
\* at the commit of index.html with the same locals whether the call reported
\* true or false; a unit that goes on has committed index.html before it reads
\* the commit id, polls for that id, notifies with the pages_url derived from
\* the user and task names, and writes that payload as the dedup record.
C26_PagesFailureNotFatal ==
  /\ [][\A u \in Units :
          (units[u].pc = "pages" /\ units'[u] # units[u]) =>
            /\ units'[u] = [units[u] EXCEPT !.pc = "index",
                                            !.log = Append(@, [op |-> "enable_pages"])]
            /\ repos' = repos]_vars
  /\ [](\A u \in Units :
          (Begun(u) /\ Round(u) = 1) =>
            /\ units[u].pc \in {"sha", "wait"} => Committed(u, INDEX)
            /\ units[u].pc \in {"notify", "load", "truncate", "write", "done"} =>
                 /\ units[u].payload.pages_url = PagesUrl(Task(u))
                 /\ units[u].payload.commit_sha = units[u].commit_sha
                 /\ \E x \in At(u, "commit", INDEX), w \in At(u, "wait", <<>>) :
                      x < w /\ units[u].log[w].sha = units[u].commit_sha
            /\ units[u].pc \in {"load", "truncate", "write", "done"} =>
                 \E i \in 1..Len(outbox) :
                   outbox[i].by = u /\ outbox[i].payload = units[u].payload
            /\ units[u].pc = "done" =>
                 units[u].log[Len(units[u].log)] =
                   [op |-> "save", key |-> Key(u), payload |-> units[u].payload])

\* enable_pages has just reported false to a round-1 unit, which is at the
\* commit of index.html
C26_Witness ==
  \E u \in Units :
    /\ units[u].pc = "index" /\ Round(u) = 1 /\ fault
    /\ units[u].log[Len(units[u].log)].op = "enable_pages"
    /\ \A w \in Units \ {u} : units[w].pc = "free"

\* the positions of the calls of generate that returned a text
Succeeded == {i \in 1..Len(frame.calls) : frame.calls[i].text # None}

\* C27: when generate returns, the primary provider was called first; the
\* secondary was called, with the same prompt, exactly when the primary
\* failed and a secondary is configured; the text that was parsed is the
\* static page exactly when no provider returned a text, and else the text of
\* the first provider that returned one.
C27_ProviderChain ==
  Generated =>
    /\ Len(frame.calls) \in {1, 2}
    /\ frame.calls[1].provider = "groq"
    /\ (Len(frame.calls) = 2) <=> (frame.calls[1].text = None /\ frame.gemini_available)
    /\ Len(frame.calls) = 2 =>
         /\ frame.calls[2].provider = "gemini"
         /\ frame.calls[2].prompt = frame.calls[1].prompt
    /\ (frame.generated_text = S(fallback_html(frame.brief, frame.checks))) <=> (Succeeded = {})
    /\ Succeeded # {} =>
         LET first == CHOOSE i \in Succeeded : \A j \in Succeeded : i <= j
         IN /\ frame.generated_text = frame.calls[first].text
            /\ frame.files = parse_response(frame.calls[first].text.v, frame.brief, frame.checks,
                                            frame.saved_attachments, frame.round_num)

\* the primary failed, the secondary returned a text with the marker, and
\* that text was parsed
C27_Witness ==
  /\ Generated
  /\ Len(frame.calls) = 2
  /\ frame.calls[1].text = None
  /\ frame.calls[2].text = S(<<"h", MARKER, "h">>)
  /\ frame.files["README.md"] = <<"h">>

\* the attachment is a data URI that can be decoded and written
Decodable(att) ==
  /\ att.v.url.t = "str"
  /\ StartsWith(att.v.url.v, DataPrefix)
  /\ Contains(att.v.url.v, ",")
  /\ B64Ok(AfterFirst(att.v.url.v, ","))
  /\ WritableName(att.v.name)

\* C28: decode returns, and what it returns are the entries of exactly the
\* attachments that can be decoded, in input order, whatever the other
\* attachments of the list are.
C28_DecodeSkipsFailures ==
  (frame.fn = "decode" /\ frame.pc # "call") =>
    LET good == SelectSeq(frame.attachments, Decodable)
    IN /\ frame.pc = "returned"
       /\ Len(frame.saved) = Len(good)
       /\ \A i \in 1..Len(good) : frame.saved[i].name = good[i].v.name.v

\* a call of notify or of wait_for_pages_deployment is under way, in a unit
\* or in the handler of a duplicate
Waiting ==
  \/ \E u \in Units : units[u].pc \in {"wait", "notify"}
  \/ frame.fn = "receive_request"

\* C29: while a unit or the handler of a duplicate is inside notify or inside
\* the deployment polling, the server can start handling another request.
C29_WaitsOffTheHandlerPath ==
  Waiting => ENABLED (\E b \in ServeBodies : ServeReceive(b))

\* a lookup that finds the repository leaves it as it is and hands it to the
\* unit, and a unit goes to the creation only from a lookup that found none
ReuseOnLookup ==
  [][\A u \in Units :
       /\ (units[u].pc = "get_repo" /\ units'[u].pc # "get_repo" /\ repos[Task(u)].exists) =>
            (units'[u].pc \in {AfterRepo(u), "failed"} /\ repos' = repos)
       /\ (units[u].pc # "create_repo" /\ units'[u].pc = "create_repo") =>
            (units[u].pc = "get_repo" /\ ~repos[Task(u)].exists)]_vars

\* C30: get_or_create_repo reuses a repository that exists and goes to the
\* creation only after a lookup that found none; and a unit that is about to
\* issue the creation never faces a repository that another unit has created
\* since its lookup, so that no creation is issued for a name that exists and
\* no unit fails on such a creation.
C30_CreateAtMostOnce ==
  /\ ReuseOnLookup
  /\ [](\A u \in Units : units[u].pc = "create_repo" => ~repos[Task(u)].exists)

\* C31: the scheduled unit eventually ends, by the dedup write or in the
\* handler at the top of the unit, whatever the collaborators answer to each
\* call; notify makes at most MAX_RETRIES attempts and the polling at most
\* max_attempts polls.
C31_UnitTerminates ==
  /\ <>(units[1].pc \in {"done", "failed"})
  /\ [](frame.fn = "unit_notify" => frame.attempt < MAX_RETRIES)
  /\ [](frame.fn = "unit_wait" => frame.attempt < max_attempts)

\* the unit has ended by the dedup write after MAX_RETRIES failed attempts of
\* notify
C31_Witness ==
  /\ units[1].pc = "done"
  /\ frame.fn = "unit_notify" /\ frame.attempt = MAX_RETRIES - 1 /\ frame.result = B(FALSE)
  /\ Key(1) \in DOMAIN Load(file)

\* notify has returned to the unit, with True or with False
NotifyReturned == frame.fn = "unit_notify" /\ frame.pc = "returned"

\* the store holds the unit's payload under the unit's key
Recorded == Key(1) \in DOMAIN Load(file) /\ Load(file)[Key(1)] = units[1].payload

\* C32: the dedup record is written after notify has returned and whatever
\* it returned: once notify has returned, with True or with False after all
\* its attempts, the unit goes on to write its payload under its key, and no
\* record is in the store before notify has returned; the same request
\* posted after the unit's end is then answered as a duplicate that carries
\* the stored payload, sends that payload to the evaluation URL once more,
\* schedules no unit and publishes nothing.
C32_RecordDespiteFailedNotify ==
  /\ (NotifyReturned ~> (units[1].pc = "done" /\ Recorded))
  /\ [](Key(1) \in DOMAIN Load(file) => NotifyReturned /\ Called(1, "notify"))
  /\ [][(units[1].pc = "done" /\ last' # Idle) =>
         /\ last'.status = "duplicate"
         /\ last'.previous_result = units[1].payload
         /\ last'.scheduled = 0
         /\ outbox' = Append(outbox, NotifyCall(units[1].data.evaluation_url,
                                                 units[1].payload, 0))
         /\ units' = units /\ repos' = repos /\ file' = file]_vars

\* the unit's notify returned False after its last attempt, the unit has
\* written its record, and the same request has been answered as a duplicate
\* with the stored payload
C32_Witness ==
  /\ units[1].pc = "done"
  /\ frame.fn = "unit_notify" /\ frame.result = B(FALSE) /\ frame.attempt = MAX_RETRIES - 1
  /\ Recorded
  /\ last.status = "duplicate" /\ last.previous_result = units[1].payload
  /\ Len(outbox) = 2 /\ outbox[2].by = 0 /\ outbox[2].payload = outbox[1].payload

\* the call has returned on a poll that saw the deployment of the commit end
\* in failure or error
TerminalFailure ==
  /\ frame.fn = "wait" /\ frame.pc = "returned"
  /\ frame.seen.t = "list" /\ Scan(frame.seen.v, frame.commit_sha) = "false"

\* the one notification of the waiting unit, with the commit and the pages URL
Sent == outbox = <<NotifyCall(units[1].data.evaluation_url, Payload(1), 1)>>

\* C33: when the polling ends on a deployment of the commit whose latest
\* status is failure or error, the call returns false and the unit goes on as
\* for a deployment that was not confirmed: it does not end in its handler,
\* it sends one notification whose payload carries the commit waited for and
\* the pages URL, and it writes that payload under its key.
C33_FailedDeploymentStillNotifies ==
  /\ [](TerminalFailure =>
          /\ frame.result = B(FALSE)
          /\ TargetIn({"failure", "error"})
          /\ units[1].pc # "failed"
          /\ units[1].pc \in {"load", "truncate", "write", "done"} =>
               /\ Sent
               /\ Payload(1).commit_sha = frame.commit_sha
               /\ Payload(1).pages_url = PagesUrl(ReqT2.task.v)
               /\ units[1].payload = Payload(1)
          /\ units[1].pc = "done" => Load(file)[Key(1)] = Payload(1))
  /\ (TerminalFailure ~> (Persisted /\ Sent))

\* the third poll listed the deployment of the commit with the state error;
\* the unit has notified and has its record in the store
C33_Witness ==
  /\ TerminalFailure
  /\ frame.polls = 3
  /\ \E i \in Targets : frame.seen.v[i].state = "error"
  /\ Persisted /\ Sent
  /\ Load(file)[Key(1)] = Payload(1)

\* the step in which the unit raises right after get_latest_commit_sha
ShaFails == units[1].pc = "sha" /\ units'[1].pc = "failed"

\* every file the unit committed is in the repository
CommitsPublished ==
  \A i \in 1..Len(units[1].log) :
    units[1].log[i].op = "commit" =>
      units[1].log[i].path \in DOMAIN repos'[units[1].data.task.v].tree

\* C34: the unit never goes on from get_latest_commit_sha without a value:
\* when the call returns none, after index.html was committed, the unit ends
\* in the handler at the top; it has not entered the deployment polling, it
\* has sent no notification and written no record, in that step and in every
\* later one, and every commit it made stays in the repository.
C34_NoShaEndsUnit ==
  /\ [](units[1].pc \in {"wait", "notify", "load", "truncate", "write", "done"} =>
          units[1].commit_sha # None)
  /\ [][ShaFails =>
         /\ Committed(1, INDEX)
         /\ frame = NoFrame /\ frame' = NoFrame
         /\ outbox = <<>> /\ outbox' = <<>>
         /\ Key(1) \notin DOMAIN Load(file) /\ file' = file
         /\ repos' = repos
         /\ CommitsPublished]_vars
  /\ [][units[1].pc = "failed" =>
         /\ units'[1] = units[1]
         /\ frame' = frame /\ outbox' = outbox /\ file' = file /\ repos' = repos]_vars

\* the unit has ended in its handler with index.html and the README in the
\* repository, without polling, notification or record
C34_Witness ==
  /\ units[1].pc = "failed" /\ fault
  /\ {README, INDEX} \subseteq DOMAIN repos[units[1].data.task.v].tree
  /\ frame = NoFrame
  /\ outbox = <<>>
  /\ Key(1) \notin DOMAIN Load(file)

====
